---- MODULE Spec2Model ----
(***************************************************************************)
(* State-machine model of the streaming agent-session layer of anki-acp:   *)
(* direct_ai.py (ask_ai_async, _ask_via_acp, _ask_claude, _ask_openai) and *)
(* acp_client.py (ACPClient).  Every thread of the program is a process of *)
(* the model: the orchestrator worker and the prompt worker of each call,  *)
(* the stdout reader of each ACP client, the HTTP worker of each direct    *)
(* call.  The agent subprocess and the HTTP server are the environment.    *)
(***************************************************************************)
EXTENDS Integers, Sequences, FiniteSets, TLC

\* ------------------------------------------------------------------ bounds
MaxCalls == 2      \* concurrent prompt calls (ask_ai_async invocations)
MaxChunks == 2     \* session/update lines one agent subprocess writes
MaxBad == 1        \* lines that are not JSON one agent subprocess writes
MaxSse == 2        \* SSE lines one HTTP response body carries
MaxLines == 7      \* SSE lines of a response body that carries tool_use blocks
MaxSwitch == 1     \* model switches made in the chat panel
MaxOther == 1      \* lines that are neither a chunk nor a response, per subprocess
MaxLists == 3      \* sub-queries merged by _rrf_merge
MaxRank == 6       \* the last rank of a sub-query's rows
MaxProse == 4      \* characters of prose before a tool block
MaxPieces == 3     \* pieces (prose, tool blocks) of an answer
MaxLimit == 3      \* the limit a search is made with
MaxGood == 2       \* slides of content lectures that match a query
MaxExcluded == 21  \* slides of excluded lectures that match a query
MaxAnswers == 1    \* answers of a multiple-choice card
MaxOdd == 1        \* stdout messages of an unexpected shape

Calls == 1..MaxCalls
\* An ACPClient is created by the worker of one call and by no other, so a
\* client is named by the call that constructed it.
Clients == Calls
NoClient == 0

AcpHarnesses == {"claude-acp", "codex-acp"}
HttpHarnesses == {"claude-api", "openai-api"}
Harnesses == AcpHarnesses \cup HttpHarnesses

NoKey == "None"                 \* session_key=None
SessionKeys == {"chat:1"}
KeyArgs == SessionKeys \cup {NoKey}

None == "None"                  \* Python None in a string-valued slot
ErrMsgs == {"", "boom"}         \* error.message values the agent may send
TimeoutMsg == "Timeout waiting for response"
NotAnObject == "NotAnObject"    \* an error member that is no JSON object

\* Request ids and session ids of one client: a call issues at most three
\* requests (initialize, session/new, session/prompt) and one session/new.
ReqIds == 1..(3 * MaxCalls)
SessIds == 1..MaxCalls
NoSid == 0

\* A JSON-RPC result as the code reads it: result is None, or an object whose
\* agentCapabilities.promptCapabilities.image is true, false or absent and
\* whose sessionId is a session id or absent (NoSid).
NoResult == [isNone |-> TRUE, image |-> "absent", sessionId |-> NoSid]
Result(img, s) == [isNone |-> FALSE, image |-> img, sessionId |-> s]

\* {"event": event, "result": None, "error": None}
NewEntry == [event |-> FALSE, result |-> NoResult, error |-> None]

\* Python truthiness of an error slot: None and "" are falsy.
Truthy(e) == e # None /\ e # ""

\* Arguments a call may be made with.  Fields a backend never reads are held
\* at one value: the API key of the direct backends decides only whether the
\* request is made at all, the ACP path reads session_key, images and the texts.
ArgSet ==
  {a \in [harness : Harnesses, key : KeyArgs, images : 0..1, ctx : BOOLEAN,
          apiKey : BOOLEAN] :
     /\ a.harness \in AcpHarnesses => a.apiKey
     /\ a.harness \in HttpHarnesses => (a.key = NoKey /\ a.images = 0 /\ ~a.ctx)}

\* The arguments of the turns of one chat: an ACP harness, the chat's key,
\* the system prompt, and images or none.
ChatArgs ==
  {a \in ArgSet : a.harness = "claude-acp" /\ a.key \in SessionKeys /\ a.ctx}

\* The arguments of the calls made around a model switch: either ACP harness,
\* the chat's key or none, the system prompt, no images.
SwitchArgs ==
  {a \in ArgSet : a.harness \in AcpHarnesses /\ a.ctx /\ a.images = 0}

\* The arguments of the single turn of a chat: one ACP harness, the chat's
\* key, the system prompt, no images.
PipeArgs ==
  {a \in ArgSet : a.harness = "codex-acp" /\ a.key \in SessionKeys /\ a.ctx
                  /\ a.images = 0}

\* The scenarios explored: one call with any arguments and the whole
\* environment (chunks, lines that are not JSON, cancellation, timeouts, every
\* response), or MaxCalls concurrent turns of one chat with an agent that
\* answers every request, with success or with an error, and streams one
\* chunk, or one call with or without a key repeated (MaxCalls calls in all)
\* around a model switch, with an agent that answers every request with success,
\* or one turn of a chat over a pipe whose writes may fail, or one turn of a
\* chat with an agent that also writes lines that are neither a chunk nor a
\* response, or one turn of a chat with an agent that also writes messages of
\* an unexpected shape and a caller whose on_chunk may raise, or MaxCalls
\* messages sent from the chat panel one after the other, for a card that has
\* an image, around a model switch.
Scenarios ==
  {[calls |-> 1, args |-> ArgSet, chunks |-> MaxChunks, bad |-> MaxBad,
    cancel |-> TRUE, timeouts |-> TRUE, errs |-> ErrMsgs,
    caps |-> {"true", "false", "absent"}, switch |-> FALSE,
    repeat |-> FALSE, sendfail |-> FALSE, other |-> 0, odd |-> 0, panel |-> FALSE,
    tools |-> FALSE, lines |-> MaxSse],
   [calls |-> MaxCalls, args |-> ChatArgs, chunks |-> 1, bad |-> 0,
    cancel |-> FALSE, timeouts |-> FALSE, errs |-> {"boom"}, caps |-> {"true"},
    switch |-> FALSE, repeat |-> FALSE, sendfail |-> FALSE, other |-> 0, odd |-> 0, panel |-> FALSE,
    tools |-> FALSE, lines |-> MaxSse],
   [calls |-> MaxCalls, args |-> SwitchArgs, chunks |-> 0, bad |-> 0,
    cancel |-> FALSE, timeouts |-> FALSE, errs |-> {}, caps |-> {"true"},
    switch |-> TRUE, repeat |-> TRUE, sendfail |-> FALSE, other |-> 0, odd |-> 0, panel |-> FALSE,
    tools |-> FALSE, lines |-> MaxSse],
   [calls |-> 1, args |-> PipeArgs, chunks |-> 1, bad |-> 0,
    cancel |-> FALSE, timeouts |-> TRUE, errs |-> {"boom"}, caps |-> {"true"},
    switch |-> FALSE, repeat |-> FALSE, sendfail |-> TRUE, other |-> 0, odd |-> 0, panel |-> FALSE,
    tools |-> FALSE, lines |-> MaxSse],
   [calls |-> 1, args |-> PipeArgs, chunks |-> 1, bad |-> 0,
    cancel |-> FALSE, timeouts |-> TRUE, errs |-> {"boom"}, caps |-> {"true"},
    switch |-> FALSE, repeat |-> FALSE, sendfail |-> FALSE, other |-> MaxOther, odd |-> 0, panel |-> FALSE,
    tools |-> FALSE, lines |-> MaxSse],
   [calls |-> 1, args |-> PipeArgs, chunks |-> 1, bad |-> 0,
    cancel |-> FALSE, timeouts |-> TRUE, errs |-> {"boom"}, caps |-> {"true"},
    switch |-> FALSE, repeat |-> FALSE, sendfail |-> FALSE, other |-> 0,
    odd |-> MaxOdd, panel |-> FALSE, tools |-> FALSE, lines |-> MaxSse],
   [calls |-> MaxCalls, args |-> ChatArgs, chunks |-> 0, bad |-> 0,
    cancel |-> FALSE, timeouts |-> FALSE, errs |-> {"boom"},
    caps |-> {"true", "false"}, switch |-> TRUE, repeat |-> FALSE,
    sendfail |-> FALSE, other |-> 0, odd |-> 0, panel |-> TRUE, tools |-> FALSE,
    lines |-> MaxSse]}

VARIABLES
  scen,        \* the scenario of the run
  image_sent_sessions,  \* ChatPanel._image_sent_sessions
  model,       \* config["claude_acp_model"], by the number of switches made
  \* ---- per call (direct_ai.py)
  pc,          \* position of the call's worker thread
  arg,         \* arguments of ask_ai_async: harness, session_key, images, ...
  cancel,      \* cancel_event of the call
  loc,         \* locals of the workers: client, existing, session_id, req_id, ...
  cb,          \* what the caller's callbacks have been called with
  sse,         \* HTTP worker: lines read so far, text about to be delivered,
               \* the tool name and input fragments accumulated
  \* ---- module state of direct_ai.py
  acp_clients, \* _acp_clients: cache key -> client
  \* ---- per ACPClient (acp_client.py)
  proc,        \* _proc is a spawned process
  req_id,      \* _req_id
  pending,     \* keys of _pending
  entry,       \* the entry dict registered under each request id
  callbacks,   \* _callbacks: session_id -> on_chunk (the call it belongs to)
  sessions,    \* _sessions: session_key -> session_id
  supports_images,
  reader,      \* the _read_loop thread
  \* ---- the agent subprocess
  inbox,       \* requests received on stdin, not yet answered
  agent,       \* what the subprocess has written so far
  \* ---- history
  hist,        \* per call: the session/prompt it sent
  \* ---- the functions of lecture_search.py and chat_tab.py
  fn           \* the function applied, its input and its result

callVars == <<pc, arg, cancel, loc, cb, sse>>
clientVars == <<proc, req_id, pending, entry, callbacks, sessions, supports_images>>
agentVars == <<inbox, agent>>
vars == <<fn, scen, image_sent_sessions, model, pc, arg, cancel, loc, cb, sse, acp_clients, proc, req_id, pending,
          entry, callbacks, sessions, supports_images, reader, inbox, agent, hist>>

\* ------------------------------------------------------------------ helpers
NoArg == [harness |-> "claude-api", key |-> NoKey, images |-> 0, ctx |-> FALSE,
          apiKey |-> FALSE]

\* What _call returned: (result, error), and whether its wait ended by the
\* response ("response") or by the timeout ("timeout").
NoRet == [result |-> NoResult, error |-> None, wait |-> "none"]

NoLoc == [model |-> 0, client |-> NoClient, existing |-> FALSE, sid |-> NoSid,
          req |-> 0, ret |-> NoRet, timedOut |-> FALSE, full |-> FALSE,
          images |-> 0]

\* An error string: a fixed prefix and the text passed through.
Msg(pre, txt) == [pre |-> pre, txt |-> txt]

NoCb == [done |-> 0, error |-> 0, msg |-> Msg("", None), chunks |-> << >>,
         tools |-> << >>]

\* The session/prompt a call sent: whether its text carries the system prompt
\* and card context, its image blocks, all its blocks; whether the key had
\* been resolved on the client when the worker looked (known).  Of the
\* call that started a client: the image capability its initialize result
\* carried, "none" when start() got no result (cap).  Of a cancelled call:
\* the number of chunks delivered when the token was set (seen).  Of the call
\* that constructed a client: the number of model switches made before (born).
\* Of a call one of whose requests the pipe did not take: that this is so
\* (unsent).  Of a call one of whose requests was completed by a message that
\* is no response: that this is so (stray).
NoHist == [prompt |-> FALSE, full |-> FALSE, images |-> 0, blocks |-> 0,
           known |-> FALSE, cap |-> "none", seen |-> 0, born |-> 0,
           unsent |-> FALSE, stray |-> FALSE]

\* A stdout line: kind is "resp" (a message without a method), "chunk" (an
\* agent_message_chunk session/update), "update" (a session/update of another
\* kind), "method" (a message with another method) or "bad" (not JSON).
Line(kind, id, err, res, sid, text) ==
  [kind |-> kind, id |-> id, err |-> err, res |-> res, sid |-> sid, text |-> text]
NoLine == Line("bad", 0, None, NoResult, NoSid, 0)

\* The read loop between two lines, before it is started, and after it ended.
IdleReader == [pc |-> "read", call |-> 0, line |-> NoLine]
NoReader == [pc |-> "off", call |-> 0, line |-> NoLine]
DeadReader == [pc |-> "dead", call |-> 0, line |-> NoLine]

\* A key made of the binary alone, whatever the model.
BinaryKey(h, m) == [h |-> h, m |-> 0]

\* cache_key = f"{binary}:{':'.join(extra_args)}": the binary of the harness
\* and, for claude-acp alone, the model of the configuration the call read.
CacheKey(h, m) == [h |-> h, m |-> IF h = "claude-acp" THEN m ELSE 0]
CacheKeys == {CacheKey(h, m) : h \in AcpHarnesses, m \in 0..MaxSwitch}

Terminal(c) == cb[c].done + cb[c].error

\* The tool_use block the response body is in the middle of: its name and
\* the fragments of its input it has carried so far; no block has the empty
\* name.
NoBlock == [name |-> "", frags |-> << >>]

\* The SSE loop before its first line: no line read, no text in hand,
\* _tool_name = None and _tool_json_parts = [], and no tool_use block closed
\* whose input did not parse (failed), no line passed over because it had no
\* "data:" prefix or its JSON did not decode (skipped).
NoSse == [n |-> 0, text |-> 0, name |-> None, parts |-> << >>, block |-> NoBlock,
          failed |-> 0, skipped |-> 0]

\* No function has been applied.
NoFn == [op |-> "none"]

\* No call has been made and no client constructed.
Quiet ==
  /\ model = 0
  /\ image_sent_sessions = {}
  /\ pc = [c \in Calls |-> "idle"]
  /\ arg = [c \in Calls |-> NoArg]
  /\ cancel = [c \in Calls |-> FALSE]
  /\ loc = [c \in Calls |-> NoLoc]
  /\ cb = [c \in Calls |-> NoCb]
  /\ sse = [c \in Calls |-> NoSse]
  /\ acp_clients = [x \in CacheKeys |-> NoClient]
  /\ proc = [k \in Clients |-> FALSE]
  /\ req_id = [k \in Clients |-> 0]
  /\ pending = [k \in Clients |-> {}]
  /\ entry = [k \in Clients |-> [i \in ReqIds |-> NewEntry]]
  /\ callbacks = [k \in Clients |-> [s \in SessIds |-> 0]]
  /\ sessions = [k \in Clients |-> [x \in SessionKeys |-> NoSid]]
  /\ supports_images = [k \in Clients |-> FALSE]
  /\ reader = [k \in Clients |-> NoReader]
  /\ inbox = [k \in Clients |-> {}]
  /\ agent = [k \in Clients |-> [chunks |-> 0, bad |-> 0, sids |-> 0,
                                  texts |-> << >>, other |-> 0]]
  /\ hist = [c \in Calls |-> NoHist]

Init ==
  /\ scen \in Scenarios
  /\ fn = NoFn
  /\ Quiet

\* ------------------------------------------------------------------ callbacks
\* A callback record that puts the newest chunk first.
OnChunkPrepend(c, t) == [cb EXCEPT ![c].chunks = <<t>> \o @]

OnChunk(c, t) == [cb EXCEPT ![c].chunks = Append(@, t)]
OnDone(c) == [cb EXCEPT ![c].done = @ + 1]
OnError(c, m) == [cb EXCEPT ![c].error = @ + 1, ![c].msg = m]

\* The locals of a worker that has ended: what the call used stays on record.
Ended(l) == [l EXCEPT !.req = 0, !.ret = NoRet, !.timedOut = FALSE]

\* ------------------------------------------------------------------ ask_ai_async
\* The direct backends and the ACP path share no state, so the calls of one
\* run all go to the direct backends or all to the ACP path.
SameFamily(g, h) == (g \in AcpHarnesses) = (h \in AcpHarnesses)

\* ask_ai_async: the configuration is read, the backend chosen and its worker
\* thread started.
AskAiAsync(c) ==
  /\ ~scen.panel
  /\ pc[c] = "idle"
  /\ c <= scen.calls
  /\ \A d \in Calls : d < c => pc[d] # "idle"
  /\ \E a \in scen.args :
       /\ \A d \in Calls : d < c => SameFamily(a.harness, arg[d].harness)
       /\ \A d \in Calls : (d < c /\ scen.repeat) => a = arg[d]
       /\ arg' = [arg EXCEPT ![c] = a]
       /\ pc' = [pc EXCEPT ![c] = IF a.harness \in AcpHarnesses THEN "w_lookup"
                                  ELSE "h_start"]
  /\ loc' = [loc EXCEPT ![c].model = model]
  /\ UNCHANGED <<fn, scen, image_sent_sessions, model, cancel, cb, sse, acp_clients, clientVars, reader,
                 agentVars, hist>>

\* The images of the card the panel shows.
CardImages == 1

\* is_first = session_key not in self._image_sent_sessions;
\* images = self._extract_card_images(card) if (card and is_first) else []
Extract(key) == IF key \notin image_sent_sessions THEN CardImages ELSE 0

\* _on_chat_send: the images of the card are extracted for the first message
\* of a key, the key is recorded when there are any, and ask_ai_async is
\* called with them.
OnChatSend(c) ==
  /\ scen.panel
  /\ pc[c] = "idle"
  /\ c <= scen.calls
  /\ \A d \in Calls : d < c => pc[d] = "done"
  /\ \E a \in scen.args :
       /\ a.images = Extract(a.key)
       /\ image_sent_sessions' = IF a.images > 0 /\ a.key # NoKey
                                 THEN image_sent_sessions \cup {a.key}
                                 ELSE image_sent_sessions
       /\ arg' = [arg EXCEPT ![c] = a]
       /\ pc' = [pc EXCEPT ![c] = IF a.harness \in AcpHarnesses THEN "w_lookup"
                                  ELSE "h_start"]
  /\ loc' = [loc EXCEPT ![c].model = model]
  /\ UNCHANGED <<fn, scen, model, cancel, cb, sse, acp_clients, clientVars, reader,
                 agentVars, hist>>

\* _on_model_change: the new model is written to the configuration and the
\* client cache cleared.  The clients dropped from it are not closed.
ModelChange ==
  /\ scen.switch
  /\ model < MaxSwitch
  /\ \E c \in Calls : pc[c] # "idle"
  /\ model' = model + 1
  /\ acp_clients' = [x \in CacheKeys |-> NoClient]
  /\ UNCHANGED <<fn, scen, image_sent_sessions, callVars, clientVars, reader, agentVars, hist>>

\* Positions at which the token is read: setting it earlier is the same as
\* setting it on entry to the first of them.
Streaming == {"p_send", "p_wait", "p_finish", "h_read", "h_deliver"}

\* A cancellation that also unregisters the chunk callback of the session.
SetCancelUnregisters(c) ==
  /\ scen.cancel
  /\ pc[c] \in Streaming
  /\ ~cancel[c]
  /\ cancel' = [cancel EXCEPT ![c] = TRUE]
  /\ hist' = [hist EXCEPT ![c].seen = Len(cb[c].chunks)]
  /\ callbacks' = IF arg[c].harness \in AcpHarnesses
                  THEN [callbacks EXCEPT ![loc[c].client][loc[c].sid] = 0]
                  ELSE callbacks
  /\ UNCHANGED <<fn, scen, image_sent_sessions, model, pc, arg, loc, cb, sse, acp_clients, proc, req_id,
                 pending, entry, sessions, supports_images, reader, agentVars>>

\* cancel_event.set() by the caller while the answer streams.
SetCancel(c) ==
  /\ scen.cancel
  /\ pc[c] \in Streaming
  /\ ~cancel[c]
  /\ cancel' = [cancel EXCEPT ![c] = TRUE]
  /\ hist' = [hist EXCEPT ![c].seen = Len(cb[c].chunks)]
  /\ UNCHANGED <<fn, scen, image_sent_sessions, model, pc, arg, loc, cb, sse, acp_clients, clientVars, reader,
                 agentVars>>

\* ------------------------------------------------------------------ ACPClient
\* A counter read without the increment once it has started: an id handed
\* out twice.
NextIdReused(k) == IF req_id[k] = 0 THEN 1 ELSE req_id[k]

\* _next_id under the lock.
NextId(k) == req_id[k] + 1

\* What the write and the flush of _send may do: succeed, or raise.
Writes == IF scen.sendfail THEN {"ok", "raise"} ELSE {"ok"}

\* A pipe written once more after its write raised.
SendRetried(k, r, w) == [inbox EXCEPT ![k] = @ \cup {r}]

\* _send: the request reaches the subprocess when the write succeeds; an
\* exception of the write is logged and nothing more is done.
Send(k, r, w) == IF w = "ok" THEN [inbox EXCEPT ![k] = @ \cup {r}] ELSE inbox

\* A request: _next_id, the registration in _pending, and _send.
Request(k, method, s, w) ==
  /\ req_id' = [req_id EXCEPT ![k] = NextId(k)]
  /\ pending' = [pending EXCEPT ![k] = @ \cup {NextId(k)}]
  /\ entry' = [entry EXCEPT ![k][NextId(k)] = NewEntry]
  /\ inbox' = Send(k, [id |-> NextId(k), method |-> method, sid |-> s], w)

\* A read of the entry that leaves it in the table.
PendingKept(k, id) == pending

\* entry = self._pending.pop(req_id, {})
PendingPop(k, id) == [pending EXCEPT ![k] = @ \ {id}]

\* The popped dict is the caller's alone and dies with its frame.
Dropped(k, id) == [entry EXCEPT ![k][id] = NewEntry]

\* _call's return value: (entry.get("result"), entry.get("error")).
CallReturn(k, id) ==
  [result |-> entry[k][id].result, error |-> entry[k][id].error,
   wait |-> IF entry[k][id].event THEN "response" ELSE "timeout"]

\* ------------------------------------------------------------------ _ask_via_acp
\* client = _acp_clients.get(cache_key); a new ACPClient when there is none.
AcpLookup(c) ==
  /\ pc[c] = "w_lookup"
  /\ LET k == acp_clients[CacheKey(arg[c].harness, loc[c].model)] IN
       IF k = NoClient
       THEN /\ loc' = [loc EXCEPT ![c].client = c]
            /\ hist' = [hist EXCEPT ![c].born = model]
            /\ pc' = [pc EXCEPT ![c] = "start"]
       ELSE /\ loc' = [loc EXCEPT ![c].client = k]
            /\ pc' = [pc EXCEPT ![c] = "w_existing"]
            /\ UNCHANGED hist
  /\ UNCHANGED <<fn, scen, image_sent_sessions, model, arg, cancel, cb, sse, acp_clients, clientVars, reader,
                 agentVars>>

\* ACPClient.start up to the wait of the handshake: Popen (which may raise
\* FileNotFoundError or another exception, returned as the error string), the
\* reader thread, and _call("initialize") as far as its event.wait.
Start(c) ==
  /\ pc[c] = "start"
  /\ LET k == loc[c].client IN
     \E popen \in {"ok", "FileNotFoundError", "Exception"} :
       IF popen = "ok"
       THEN /\ proc' = [proc EXCEPT ![k] = TRUE]
            /\ reader' = [reader EXCEPT ![k] = IdleReader]
            /\ \E w \in Writes :
                 /\ Request(k, "initialize", NoSid, w)
                 /\ hist' = [hist EXCEPT ![c].unsent = (w = "raise")]
            /\ loc' = [loc EXCEPT ![c].req = NextId(k)]
            /\ pc' = [pc EXCEPT ![c] = "init_wait"]
            /\ UNCHANGED cb
       ELSE /\ cb' = OnError(c, IF popen = "FileNotFoundError"
                                THEN Msg("ACP binary not found: ", "binary")
                                ELSE Msg("", popen))
            /\ pc' = [pc EXCEPT ![c] = "done"]
            /\ UNCHANGED <<proc, reader, req_id, pending, entry, inbox, loc, hist>>
  /\ UNCHANGED <<fn, scen, image_sent_sessions, model, arg, cancel, sse, acp_clients, callbacks, sessions,
                 supports_images, agent>>

\* _call returns to start() or to get_or_create_session: event.wait(timeout=30)
\* ended because the event was set or because the time was up; the entry is
\* popped and its result and error returned.
Call(c) ==
  /\ pc[c] \in {"init_wait", "new_wait"}
  /\ LET k == loc[c].client
         id == loc[c].req
     IN /\ scen.timeouts \/ entry[k][id].event
        /\ pending' = PendingPop(k, id)
        /\ entry' = Dropped(k, id)
        /\ loc' = [loc EXCEPT ![c].ret = CallReturn(k, id)]
  /\ pc' = [pc EXCEPT ![c] = IF pc[c] = "init_wait" THEN "init_ret" ELSE "new_ret"]
  /\ UNCHANGED <<fn, scen, image_sent_sessions, model, arg, cancel, cb, sse, acp_clients, proc, req_id, callbacks,
                 sessions, supports_images, reader, agentVars, hist>>

\* bool(prompt_caps.get("image", False)) of (result or {})
ImageCap(res) == res.image = "true"

\* The rest of start() and the worker's use of its return value: an error
\* ends the call, otherwise the capability flag is set and the client cached.
StartReturn(c) ==
  /\ pc[c] = "init_ret"
  /\ LET k == loc[c].client
         error == loc[c].ret.error
         result == loc[c].ret.result
     IN IF Truthy(error)
        THEN /\ cb' = OnError(c, Msg("initialize failed: ", error))
             /\ loc' = [loc EXCEPT ![c] = Ended(@)]
             /\ pc' = [pc EXCEPT ![c] = "done"]
             /\ UNCHANGED <<supports_images, acp_clients, hist>>
        ELSE /\ supports_images' = [supports_images EXCEPT ![k] = ImageCap(result)]
             /\ acp_clients' = [acp_clients EXCEPT
                                ![CacheKey(arg[c].harness, loc[c].model)] = k]
             /\ hist' = [hist EXCEPT ![c].cap = IF result.isNone THEN "none"
                                                ELSE result.image]
             /\ loc' = [loc EXCEPT ![c].ret = NoRet]
             /\ pc' = [pc EXCEPT ![c] = "w_existing"]
             /\ UNCHANGED cb
  /\ UNCHANGED <<fn, scen, image_sent_sessions, model, arg, cancel, sse, proc, req_id, pending, entry, callbacks,
                 sessions, reader, agentVars>>

\* Call d has resolved its session on a client.
Resolved(d) == loc[d].sid # NoSid

\* Some call has resolved key x to a session on client k.
Known(k, x) ==
  /\ x # NoKey
  /\ \E d \in Calls : loc[d].client = k /\ arg[d].key = x /\ Resolved(d)

\* A registry in which no key is ever found.
CachedNever(k, x) == FALSE

\* session_key in self._sessions, for a key that is given
Cached(k, x) == x # NoKey /\ sessions[k][x] # NoSid

\* existing = session_key in client._sessions if session_key else False
AcpExisting(c) ==
  /\ pc[c] = "w_existing"
  /\ LET k == loc[c].client
         x == arg[c].key
     IN /\ loc' = [loc EXCEPT ![c].existing = Cached(k, x)]
        /\ hist' = [hist EXCEPT ![c].known = Known(k, x)]
  /\ pc' = [pc EXCEPT ![c] = "w_session"]
  /\ UNCHANGED <<fn, scen, image_sent_sessions, model, arg, cancel, cb, sse, acp_clients, clientVars, reader,
                 agentVars>>

\* get_or_create_session up to its return (a cached key) or to the event.wait
\* of _call("session/new").
GetOrCreateSession(c) ==
  /\ pc[c] = "w_session"
  /\ LET k == loc[c].client
         x == arg[c].key
     IN IF Cached(k, x)
        THEN /\ loc' = [loc EXCEPT ![c].sid = sessions[k][x]]
             /\ pc' = [pc EXCEPT ![c] = "w_send"]
             /\ UNCHANGED <<req_id, pending, entry, inbox, hist>>
        ELSE /\ \E w \in Writes :
                  /\ Request(k, "session/new", NoSid, w)
                  /\ hist' = [hist EXCEPT ![c].unsent = (w = "raise")]
             /\ loc' = [loc EXCEPT ![c].req = NextId(k)]
             /\ pc' = [pc EXCEPT ![c] = "new_wait"]
  /\ UNCHANGED <<fn, scen, image_sent_sessions, model, arg, cancel, cb, sse, acp_clients, proc, callbacks, sessions,
                 supports_images, reader, agent>>

\* A session that is returned but not stored under its key.
SessionNotStored(k, x, s) == sessions

\* A store that keeps the session a key already has.
StoreSessionOnce(k, x, s) ==
  IF x # NoKey /\ sessions[k][x] = NoSid THEN [sessions EXCEPT ![k][x] = s]
  ELSE sessions

\* A session stored under the chat's key even when the call gave none.
StoreSessionAnyKey(k, x, s) == [sessions EXCEPT ![k]["chat:1"] = s]

\* if session_key: self._sessions[session_key] = session_id
StoreSession(k, x, s) ==
  IF x # NoKey THEN [sessions EXCEPT ![k][x] = s] ELSE sessions

\* A session id made up when the result carries none.
SessionIdOrFirst(result) ==
  IF result.isNone \/ result.sessionId = NoSid THEN 1 ELSE result.sessionId

\* result.get("sessionId") if result else None
SessionIdOf(result) == IF result.isNone THEN NoSid ELSE result.sessionId

\* The rest of get_or_create_session and the worker's use of its return
\* value: an error or a missing sessionId ends the call, otherwise the
\* session is stored under the key.
SessionNewReturn(c) ==
  /\ pc[c] = "new_ret"
  /\ LET k == loc[c].client
         error == loc[c].ret.error
         session_id == SessionIdOf(loc[c].ret.result)
     IN IF Truthy(error)
        THEN /\ cb' = OnError(c, Msg("session/new failed: ", error))
             /\ loc' = [loc EXCEPT ![c] = Ended(@)]
             /\ pc' = [pc EXCEPT ![c] = "done"]
             /\ UNCHANGED sessions
        ELSE IF session_id = NoSid
        THEN /\ cb' = OnError(c, Msg("No sessionId in session/new response", ""))
             /\ loc' = [loc EXCEPT ![c] = Ended(@)]
             /\ pc' = [pc EXCEPT ![c] = "done"]
             /\ UNCHANGED sessions
        ELSE /\ sessions' = StoreSession(k, arg[c].key, session_id)
             /\ loc' = [loc EXCEPT ![c].sid = session_id, ![c].ret = NoRet]
             /\ pc' = [pc EXCEPT ![c] = "w_send"]
             /\ UNCHANGED cb
  /\ UNCHANGED <<fn, scen, image_sent_sessions, model, arg, cancel, sse, acp_clients, proc, req_id, pending, entry,
                 callbacks, supports_images, reader, agentVars, hist>>

\* full_prompt carries the system prompt and the card context:
\* not existing and (system_prompt or card_context)
FullPrompt(existing, ctx) == ~existing /\ ctx

\* The images passed on whether or not the key is known.
ImagesEveryTurn(existing, images) == images

\* prompt_images = images if (not existing and images) else None
PromptImages(existing, images) == IF ~existing /\ images > 0 THEN images ELSE 0

\* A registration that keeps the callback a session already has.
RegisterIfAbsent(k, s, c) ==
  IF callbacks[k][s] = 0 THEN [callbacks EXCEPT ![k][s] = c] ELSE callbacks

\* self._callbacks[session_id] = on_chunk
Register(k, s, c) == [callbacks EXCEPT ![k][s] = c]

\* The prompt is built, and send_prompt registers the chunk callback and
\* starts the prompt worker.
SendPrompt(c) ==
  /\ pc[c] = "w_send"
  /\ loc' = [loc EXCEPT ![c].full = FullPrompt(loc[c].existing, arg[c].ctx),
                        ![c].images = PromptImages(loc[c].existing, arg[c].images)]
  /\ callbacks' = Register(loc[c].client, loc[c].sid, c)
  /\ pc' = [pc EXCEPT ![c] = "p_send"]
  /\ UNCHANGED <<fn, scen, image_sent_sessions, model, arg, cancel, cb, sse, acp_clients, proc, req_id, pending,
                 entry, sessions, supports_images, reader, agentVars, hist>>

\* Image blocks built without regard to the capability flag.
ImageBlocksAnyway(k, images) == images

\* Image blocks of the prompt: the images given, if self._supports_images.
ImageBlocks(k, images) == IF supports_images[k] THEN images ELSE 0

\* send_prompt._worker up to event.wait: the request is registered, the
\* blocks built and the session/prompt sent.
PromptSend(c) ==
  /\ pc[c] = "p_send"
  /\ LET k == loc[c].client IN
       /\ loc' = [loc EXCEPT ![c].req = NextId(k)]
       /\ \E w \in Writes :
            /\ Request(k, "session/prompt", loc[c].sid, w)
            /\ hist' = [hist EXCEPT ![c].prompt = TRUE,
                                    ![c].full = loc[c].full,
                                    ![c].images = ImageBlocks(k, loc[c].images),
                                    ![c].blocks = ImageBlocks(k, loc[c].images) + 1,
                                    ![c].unsent = (w = "raise")]
  /\ pc' = [pc EXCEPT ![c] = "p_wait"]
  /\ UNCHANGED <<fn, scen, image_sent_sessions, model, arg, cancel, cb, sse, acp_clients, proc, callbacks, sessions,
                 supports_images, reader, agent>>

\* timed_out = not event.wait(timeout=180)
PromptWait(c) ==
  /\ pc[c] = "p_wait"
  /\ scen.timeouts \/ entry[loc[c].client][loc[c].req].event
  /\ loc' = [loc EXCEPT ![c].timedOut = ~entry[loc[c].client][loc[c].req].event]
  /\ pc' = [pc EXCEPT ![c] = "p_finish"]
  /\ UNCHANGED <<fn, scen, image_sent_sessions, model, arg, cancel, cb, sse, acp_clients, clientVars, reader,
                 agentVars, hist>>

\* self._callbacks.pop(session_id, None)
CallbackPop(k, s) == [callbacks EXCEPT ![k][s] = 0]

\* A prompt's end in which the timeout's on_error falls through to on_done.
PromptEndFallsThrough(c, timed_out, e) ==
  IF timed_out THEN [cb EXCEPT ![c].error = @ + 1, ![c].done = @ + 1,
                               ![c].msg = Msg("", TimeoutMsg)]
  ELSE IF Truthy(e.error) THEN OnError(c, Msg("", e.error))
  ELSE OnDone(c)

\* The terminal callback of a prompt, from timed_out and the popped entry.
PromptEnd(c, timed_out, e) ==
  IF timed_out THEN OnError(c, Msg("", TimeoutMsg))
  ELSE IF Truthy(e.error) THEN OnError(c, Msg("", e.error))
  ELSE OnDone(c)

\* The rest of send_prompt._worker: the callback is unregistered, the entry
\* popped, and the terminal callback made.
PromptFinish(c) ==
  /\ pc[c] = "p_finish"
  /\ LET k == loc[c].client
         id == loc[c].req
     IN /\ callbacks' = CallbackPop(k, loc[c].sid)
        /\ pending' = PendingPop(k, id)
        /\ entry' = Dropped(k, id)
        /\ cb' = PromptEnd(c, loc[c].timedOut, entry[k][id])
  /\ loc' = [loc EXCEPT ![c] = Ended(@)]
  /\ pc' = [pc EXCEPT ![c] = "done"]
  /\ UNCHANGED <<fn, scen, image_sent_sessions, model, arg, cancel, sse, acp_clients, proc, req_id, sessions,
                 supports_images, reader, agentVars, hist>>

\* ------------------------------------------------------------------ the agent
\* The responses the subprocess may give to a request.  It numbers the
\* sessions it creates.
Responses(k, r) ==
  IF r.method = "initialize"
  THEN {Line("resp", r.id, None, Result(i, NoSid), NoSid, 0) :
          i \in scen.caps}
       \cup {Line("resp", r.id, m, NoResult, NoSid, 0) : m \in scen.errs}
  ELSE IF r.method = "session/new"
  THEN {Line("resp", r.id, None, Result("absent", s), NoSid, 0) :
          s \in {NoSid, agent[k].sids + 1}}
       \cup {Line("resp", r.id, m, NoResult, NoSid, 0) : m \in scen.errs}
  ELSE {Line("resp", r.id, None, Result("absent", NoSid), NoSid, 0)}
       \cup {Line("resp", r.id, m, NoResult, NoSid, 0) : m \in scen.errs}

\* The agent_message_chunk lines the subprocess may write: for a session it
\* is prompting, with the empty text (0) or the next numbered text.
Chunks(k) ==
  IF agent[k].chunks < scen.chunks
  THEN {Line("chunk", 0, None, NoResult, r.sid, t) :
          r \in {q \in inbox[k] : q.method = "session/prompt"},
          t \in {0, agent[k].chunks + 1}}
  ELSE {}

\* A line that is not JSON.
BadLines(k) == IF agent[k].bad < scen.bad THEN {NoLine} ELSE {}

\* The ids a message of the subprocess's own may carry: none (0), or a
\* number of its choice.
OtherIds == {0} \cup ReqIds

\* The lines of the subprocess that are neither a chunk nor a response: a
\* session/update of another kind, and a notification or a request of its own
\* with another method.
Others(k) ==
  IF agent[k].other < scen.other
  THEN {Line(kind, i, None, NoResult, NoSid, 0) :
          kind \in {"update", "method"}, i \in OtherIds}
  ELSE {}

\* The lines of an unexpected shape: JSON that is no object ("scalar"), and
\* a response to a request whose error member is no object.
Odd(k) ==
  IF agent[k].other < scen.odd
  THEN {Line("scalar", 0, None, NoResult, NoSid, 0)}
       \cup {Line("resp", r.id, NotAnObject, NoResult, NoSid, 0) : r \in inbox[k]}
  ELSE {}

\* The lines the subprocess may write next to its stdout: the answer to a
\* request it has received (whether or not the client still waits for it),
\* a chunk, a message of another kind or of an unexpected shape, or a line
\* that is not JSON.
AgentLines(k) ==
  UNION {Responses(k, r) : r \in inbox[k]} \cup Chunks(k) \cup BadLines(k)
    \cup Others(k) \cup Odd(k)

\* The subprocess after writing the line: its counts of sessions created, of
\* chunks and of lines that are not JSON written, and the non-empty chunk
\* texts it has written, each with its session.
AgentWrote(k, line) ==
  [agent EXCEPT ![k].sids = @ + (IF line.res.sessionId # NoSid THEN 1 ELSE 0),
                ![k].chunks = @ + (IF line.kind = "chunk" THEN 1 ELSE 0),
                ![k].bad = @ + (IF line.kind = "bad" THEN 1 ELSE 0),
                ![k].other = @ + (IF \/ line.kind \in {"update", "method", "scalar"}
                                     \/ line.err = NotAnObject
                                  THEN 1 ELSE 0),
                ![k].texts = IF line.kind = "chunk" /\ line.text # 0
                             THEN Append(@, [sid |-> line.sid, text |-> line.text])
                             ELSE @]

\* ------------------------------------------------------------------ _read_loop
\* A decode error that escapes to the outer handler and ends the loop.
BadJsonEndsLoop == DeadReader

\* json.loads raised JSONDecodeError: the line is logged and skipped.
BadJson == IdleReader

\* A dispatch that hands a chunk to a registered callback whatever the
\* session the chunk names.
DispatchAnySession(k, line) ==
  IF line.kind = "scalar" THEN DeadReader
  ELSE IF line.kind = "chunk"
  THEN IF line.text # 0 /\ \E s \in SessIds : callbacks[k][s] # 0
       THEN [pc |-> "guard",
             call |-> callbacks[k][CHOOSE s \in SessIds : callbacks[k][s] # 0],
             line |-> line]
       ELSE IdleReader
  ELSE IF line.kind = "update" THEN IdleReader
  ELSE IF line.id \in pending[k]
       THEN [pc |-> "attach", call |-> 0, line |-> line]
       ELSE IdleReader

\* _dispatch up to its first access to shared state: the chunk callback is
\* looked up, or the response id tested against _pending.  msg.get of a
\* message that is no object raises AttributeError, which the outer handler
\* of the read loop catches: the loop ends.
Dispatch(k, line) ==
  IF line.kind = "scalar" THEN DeadReader
  ELSE IF line.kind = "chunk"
  THEN IF line.text # 0 /\ callbacks[k][line.sid] # 0
       THEN [pc |-> "guard", call |-> callbacks[k][line.sid], line |-> line]
       ELSE IdleReader
  ELSE IF line.kind = "update" THEN IdleReader
  ELSE IF line.id \in pending[k]
       THEN [pc |-> "attach", call |-> 0, line |-> line]
       ELSE IdleReader

\* One iteration of the read loop: the next line the subprocess writes is
\* read and decoded; a line that is not JSON is skipped, any other dispatched.
ReadLine(k) ==
  /\ reader[k].pc = "read"
  /\ \E line \in AgentLines(k) :
       /\ agent' = AgentWrote(k, line)
       /\ inbox' = [inbox EXCEPT ![k] = {r \in @ : line.kind # "resp" \/ r.id # line.id}]
       /\ reader' = [reader EXCEPT ![k] = IF line.kind = "bad" THEN BadJson
                                          ELSE Dispatch(k, line)]
  /\ UNCHANGED <<fn, scen, image_sent_sessions, model, callVars, acp_clients, clientVars, hist>>

\* A guard that never looks at the token.
Unguarded(c) == FALSE

\* _on_chunk_guarded's test: the chunk is dropped when the token is set.
Guarded(c) == cancel[c]

\* cb(text) enters _on_chunk_guarded: the cancellation token is tested.
ChunkGuard(k) ==
  /\ reader[k].pc = "guard"
  /\ reader' = [reader EXCEPT ![k] = IF Guarded(reader[k].call) THEN IdleReader
                                     ELSE [@ EXCEPT !.pc = "deliver"]]
  /\ UNCHANGED <<fn, scen, image_sent_sessions, model, callVars, acp_clients, clientVars, agentVars, hist>>

\* What the caller's on_chunk may do: return, or raise.
OnChunkEnds == IF scen.odd > 0 THEN {"returns", "raises"} ELSE {"returns"}

\* _on_chunk_guarded calls the caller's on_chunk.  An exception of the
\* callback passes through _dispatch to the outer handler of the read loop,
\* which ends.
ChunkDeliver(k) ==
  /\ reader[k].pc = "deliver"
  /\ cb' = OnChunk(reader[k].call, reader[k].line.text)
  /\ \E e \in OnChunkEnds :
       reader' = [reader EXCEPT ![k] = IF e = "returns" THEN IdleReader ELSE DeadReader]
  /\ UNCHANGED <<fn, scen, image_sent_sessions, model, pc, arg, cancel, loc, sse, acp_clients, clientVars,
                 agentVars, hist>>

\* The entry a response leaves behind: error.message, or the result.
Attached(line) ==
  IF line.err # None THEN [event |-> TRUE, result |-> NoResult, error |-> line.err]
  ELSE [event |-> TRUE, result |-> line.res, error |-> None]

\* entry = self._pending[msg_id]; the result or error is attached and the
\* event set.  When the waiting caller popped the entry since the test in
\* Dispatch, the lookup raises KeyError and the read loop ends; so it does
\* when msg["error"] is no object and has no get (AttributeError), before the
\* event is set.
ResponseAttach(k) ==
  /\ reader[k].pc = "attach"
  /\ IF reader[k].line.id \in pending[k] /\ reader[k].line.err # NotAnObject
     THEN /\ entry' = [entry EXCEPT ![k][reader[k].line.id] = Attached(reader[k].line)]
          /\ reader' = [reader EXCEPT ![k] = IdleReader]
          /\ hist' = [c \in Calls |->
                        IF /\ loc[c].client = k /\ loc[c].req = reader[k].line.id
                           /\ reader[k].line.kind # "resp"
                        THEN [hist[c] EXCEPT !.stray = TRUE] ELSE hist[c]]
     ELSE /\ reader' = [reader EXCEPT ![k] = DeadReader]
          /\ UNCHANGED <<entry, hist>>
  /\ UNCHANGED <<fn, scen, image_sent_sessions, model, callVars, acp_clients, proc, req_id, pending, callbacks,
                 sessions, supports_images, agentVars>>

\* ------------------------------------------------------------------ direct HTTP
\* _ask_claude / _ask_openai up to the response body: the API key test and
\* urlopen, which returns the stream or raises (HTTPError, or any other).
HttpStart(c) ==
  /\ pc[c] = "h_start"
  /\ IF ~arg[c].apiKey
     THEN /\ cb' = OnError(c, Msg("API-nyckel saknas", ""))
          /\ pc' = [pc EXCEPT ![c] = "done"]
     ELSE \E r \in {"stream", "HTTPError", "Exception"} :
            IF r = "stream"
            THEN /\ pc' = [pc EXCEPT ![c] = "h_read"]
                 /\ UNCHANGED cb
            ELSE /\ cb' = OnError(c, Msg(r, "body"))
                 /\ pc' = [pc EXCEPT ![c] = "done"]
  /\ UNCHANGED <<fn, scen, image_sent_sessions, model, arg, cancel, loc, sse, acp_clients, clientVars, reader,
                 agentVars, hist>>

\* What one SSE line is to the loop: skipped (no "data:" prefix, undecodable
\* JSON, an event without text), the [DONE] marker, a text delta, or a text
\* delta whose text is empty.
SseKinds == {"skip", "done", "text", "empty"}

\* The names of the tools offered to the model, and the fragments the input of
\* a tool_use block arrives in.
ToolNames == {"create_card", "search_cards"}
Fragments == {"", "{\"query\":", "\"x\"}", "{}"}

\* An SSE line: its kind, and the name (content_block_start of a tool_use
\* block) or the partial_json (input_json_delta) it carries.
SseLine(kind, name, part) == [kind |-> kind, name |-> name, part |-> part]

\* The lines the body may carry next.  A body with tool_use blocks carries
\* its content blocks one after the other: inside a tool_use block the
\* fragments of its input and its content_block_stop, outside of one text
\* deltas, the start of a tool_use block, and the content_block_stop of a
\* text block.  Lines that are skipped may come anywhere.
SseLines(c) ==
  IF ~scen.tools \/ arg[c].harness # "claude-api"
  THEN {SseLine(kind, "", "") : kind \in SseKinds}
  ELSE IF sse[c].block # NoBlock
  THEN {SseLine("skip", "", ""), SseLine("stop", "", "")}
       \cup {SseLine("json", "", f) : f \in Fragments}
  ELSE {SseLine(kind, "", "") : kind \in SseKinds \cup {"stop"}}
       \cup {SseLine("start", n, "") : n \in ToolNames}

\* A loop that takes every line for a text delta.
DeliversAll(h, kind) == TRUE

\* on_chunk is called for a text delta: _ask_claude passes every text_delta
\* on, _ask_openai only a non-empty one.
Delivers(h, kind) == kind = "text" \/ (kind = "empty" /\ h = "claude-api")

\* if cancel_event and cancel_event.is_set(): break
Cancelled(c) == cancel[c]

\* The fragments joined last first.
RECURSIVE JoinedBackwards(_)
JoinedBackwards(parts) ==
  IF parts = << >> THEN "" ELSE JoinedBackwards(Tail(parts)) \o Head(parts)

\* "".join(_tool_json_parts)
RECURSIVE Joined(_)
Joined(parts) == IF parts = << >> THEN "" ELSE Head(parts) \o Joined(Tail(parts))

\* json.loads of a tool input: the object as its set of members, or
\* JSONDecodeError.
ToolInput(text) ==
  IF text = "{\"query\":\"x\"}" THEN [ok |-> TRUE, val |-> {<<"query", "x">>}]
  ELSE IF text = "{}" THEN [ok |-> TRUE, val |-> {}]
  ELSE [ok |-> FALSE, val |-> {}]

\* content_block_stop: on_tool_use(_tool_name, tool_input) when there are a
\* name and fragments and these parse; a JSONDecodeError is passed over.
ToolUse(c) ==
  IF sse[c].name # None /\ sse[c].parts # << >> /\ ToolInput(Joined(sse[c].parts)).ok
  THEN [cb EXCEPT ![c].tools =
          Append(@, [name |-> sse[c].name,
                     input |-> ToolInput(Joined(sse[c].parts)).val])]
  ELSE cb

\* json.loads raised JSONDecodeError on the input of a tool_use block: 1 when
\* it did, 0 otherwise.
ParseFailed(c) ==
  IF /\ sse[c].block # NoBlock /\ sse[c].name # None /\ sse[c].parts # << >>
     /\ ~ToolInput(Joined(sse[c].parts)).ok
  THEN 1 ELSE 0

\* The loop's record of one more line read; a loop that has been cancelled
\* leaves before it looks at the line.
Read(c, kind) ==
  [sse EXCEPT ![c].n = @ + 1,
              ![c].skipped = @ + (IF kind = "skip" /\ ~Cancelled(c) THEN 1 ELSE 0)]

\* One iteration of "for line in resp" up to on_chunk: the body ends, or the
\* read or the decoding of the bytes raises, or a line is read, the token
\* tested and the line decoded.
HttpRead(c) ==
  /\ pc[c] = "h_read"
  /\ \E ev \in {SseLine("eof", "", ""), SseLine("raise", "", "")} \cup SseLines(c) :
       IF ev.kind = "eof"
       THEN /\ cb' = OnDone(c)
            /\ pc' = [pc EXCEPT ![c] = "done"]
            /\ UNCHANGED sse
       ELSE IF ev.kind = "raise"
       THEN /\ cb' = OnError(c, Msg("Exception", "read"))
            /\ pc' = [pc EXCEPT ![c] = "done"]
            /\ UNCHANGED sse
       ELSE /\ sse[c].n < scen.lines
            /\ IF Cancelled(c) \/ ev.kind = "done"
               THEN /\ cb' = OnDone(c)
                    /\ pc' = [pc EXCEPT ![c] = "done"]
                    /\ sse' = Read(c, ev.kind)
               ELSE IF Delivers(arg[c].harness, ev.kind)
               THEN /\ sse' = [Read(c, ev.kind) EXCEPT
                                          ![c].text = IF ev.kind = "empty" THEN 0
                                                      ELSE sse[c].n + 1]
                    /\ pc' = [pc EXCEPT ![c] = "h_deliver"]
                    /\ UNCHANGED cb
               ELSE IF ev.kind = "start"
               THEN /\ sse' = [Read(c, ev.kind) EXCEPT
                                          ![c].name = ev.name,
                                          ![c].parts = << >>,
                                          ![c].block = [name |-> ev.name,
                                                        frags |-> << >>]]
                    /\ UNCHANGED <<pc, cb>>
               ELSE IF ev.kind = "json"
               THEN /\ sse' = [Read(c, ev.kind) EXCEPT
                                          ![c].parts = Append(@, ev.part),
                                          ![c].block.frags = Append(@, ev.part)]
                    /\ UNCHANGED <<pc, cb>>
               ELSE IF ev.kind = "stop"
               THEN /\ cb' = ToolUse(c)
                    /\ sse' = [Read(c, ev.kind) EXCEPT
                                          ![c].name = None,
                                          ![c].parts = << >>,
                                          ![c].block = NoBlock,
                                          ![c].failed = @ + ParseFailed(c)]
                    /\ UNCHANGED pc
               ELSE /\ sse' = Read(c, ev.kind)
                    /\ UNCHANGED <<pc, cb>>
  /\ UNCHANGED <<fn, scen, image_sent_sessions, model, arg, cancel, loc, acp_clients, clientVars, reader,
                 agentVars, hist>>

\* on_chunk(text) of the direct backends.
HttpDeliver(c) ==
  /\ pc[c] = "h_deliver"
  /\ cb' = OnChunk(c, sse[c].text)
  /\ sse' = [sse EXCEPT ![c].text = 0]
  /\ pc' = [pc EXCEPT ![c] = "h_read"]
  /\ UNCHANGED <<fn, scen, image_sent_sessions, model, arg, cancel, loc, acp_clients, clientVars, reader,
                 agentVars, hist>>

\* ------------------------------------------------------------------ specification
Next ==
  \/ \E c \in Calls : AskAiAsync(c)
  \/ \E c \in Calls : OnChatSend(c)
  \/ \E c \in Calls : SetCancel(c)
  \/ ModelChange
  \/ \E c \in Calls : AcpLookup(c)
  \/ \E c \in Calls : Start(c)
  \/ \E c \in Calls : Call(c)
  \/ \E c \in Calls : StartReturn(c)
  \/ \E c \in Calls : AcpExisting(c)
  \/ \E c \in Calls : GetOrCreateSession(c)
  \/ \E c \in Calls : SessionNewReturn(c)
  \/ \E c \in Calls : SendPrompt(c)
  \/ \E c \in Calls : PromptSend(c)
  \/ \E c \in Calls : PromptWait(c)
  \/ \E c \in Calls : PromptFinish(c)
  \/ \E c \in Calls : HttpStart(c)
  \/ \E c \in Calls : HttpRead(c)
  \/ \E c \in Calls : HttpDeliver(c)
  \/ \E k \in Clients : ReadLine(k)
  \/ \E k \in Clients : ChunkGuard(k)
  \/ \E k \in Clients : ChunkDeliver(k)
  \/ \E k \in Clients : ResponseAttach(k)

Spec == Init /\ [][Next]_vars

\* Every thread keeps running and every wait ends, by its event or by its
\* timeout: no step that can be taken is put off forever.
FairSpec == Spec /\ WF_vars(Next)

\* ------------------------------------------------------------------ properties
Started(c) == pc[c] # "idle"
Done(c) == pc[c] = "done"
ClientOf(c) == loc[c].client
Waiting == {"init_wait", "new_wait", "p_wait", "p_finish"}

\* C1: for every call, on every backend and for every outcome, exactly one of
\* on_done / on_error is invoked, exactly once: never twice, never both, and a
\* call that was made does end with one (never zero times).
C1_ExactlyOneTerminal ==
  /\ [](\A c \in Calls : /\ cb[c].done + cb[c].error <= 1
                         /\ Done(c) => cb[c].done + cb[c].error = 1)
  /\ \A c \in Calls : Started(c) ~> (Done(c) /\ Terminal(c) = 1)

\* C1, a case of it: a prompt that timed out has ended with on_error alone.
C1_Witness ==
  \E c \in Calls : /\ Done(c) /\ cb[c].msg = Msg("", TimeoutMsg)
                   /\ cb[c].error = 1 /\ cb[c].done = 0

\* C2: for a prompt sent through the ACP client, no on_chunk of a call happens
\* after the call's terminal callback, in every interleaving of the reader
\* thread and the prompt worker.
C2_NoChunkAfterTerminal ==
  [][\A c \in Calls : Terminal(c) > 0 => cb'[c].chunks = cb[c].chunks]_vars

\* C3 as stated: once the token is set, no further chunk reaches the caller.
C3_NoChunkAfterCancel ==
  \A c \in Calls : cancel[c] => Len(cb[c].chunks) = hist[c].seen

\* C3: once the token is set, at most one further chunk reaches the caller
\* (the one whose cancellation test had already passed), on the ACP backend
\* and on both direct backends, and the call still ends with exactly one
\* terminal callback.
C3_CancelStopsChunks ==
  \A c \in Calls :
    cancel[c] => /\ Len(cb[c].chunks) <= hist[c].seen + 1
                 /\ Terminal(c) <= 1
                 /\ Done(c) => Terminal(c) = 1

\* C3, a case of it: a cancelled call has ended, one chunk having slipped past
\* the token.
C3_Witness ==
  \E c \in Calls : /\ cancel[c] /\ Done(c) /\ hist[c].seen >= 1
                   /\ Len(cb[c].chunks) = hist[c].seen + 1

\* Calls c and d share a session key on one client.
SameChat(c, d) ==
  /\ arg[c].key # NoKey /\ arg[c].key = arg[d].key
  /\ ClientOf(c) # NoClient /\ ClientOf(c) = ClientOf(d)

C6_NoImagesWithoutCapability ==
  /\ [](\A c \in Calls :
          (hist[c].prompt /\ hist[ClientOf(c)].cap # "true") => hist[c].images = 0)
  /\ [][\A k \in Clients :
          supports_images'[k] # supports_images[k]
            => pc[k] = "init_ret" /\ pc'[k] = "w_existing" /\ ClientOf(k) = k]_vars

\* C6, a case of it: a prompt given an image went out as the text block alone,
\* the client's initialize result having had no image capability.
C6_Witness ==
  \E c \in Calls : /\ hist[c].prompt /\ arg[c].images > 0 /\ loc[c].images > 0
                   /\ hist[ClientOf(c)].cap = "absent"
                   /\ hist[c].images = 0 /\ hist[c].blocks = 1

\* C7: a stdout line that is not JSON does not end the read loop and changes
\* no client state; a well-formed response read after it for a pending
\* request still attaches its result or error and sets the request's event.
C7_BadLineSkipped ==
  [][\A k \in Clients :
       /\ agent'[k].bad > agent[k].bad
            => /\ reader'[k].pc = "read"
               /\ UNCHANGED <<clientVars, acp_clients, callVars>>
       /\ (agent[k].bad > 0 /\ reader[k].pc = "attach" /\ reader'[k] # reader[k]
           /\ reader[k].line.id \in pending[k])
            => /\ reader'[k].pc = "read"
               /\ entry'[k][reader[k].line.id].event
               /\ entry'[k][reader[k].line.id].error = reader[k].line.err
               /\ reader[k].line.err = None
                    => entry'[k][reader[k].line.id].result = reader[k].line.res]_vars

\* C7, a case of it: after a line that was not JSON the loop has read a
\* response to a pending request and is about to attach it.
C7_Witness ==
  \E k \in Clients : /\ agent[k].bad > 0 /\ reader[k].pc = "attach"
                     /\ reader[k].line.id \in pending[k]

\* C8: when the handshake gets no response within its timeout, or an error
\* response, start() returns an error: the client is not cached, the call
\* ends with on_error, and nothing more is sent for it.
C8_HandshakeFailureAborts ==
  [][\A c \in Calls :
       (pc[c] = "init_ret" /\ pc'[c] # "init_ret"
        /\ (loc[c].ret.wait = "timeout" \/ loc[c].ret.error # None))
         => /\ pc'[c] = "done" /\ cb'[c].error = 1
            /\ acp_clients' = acp_clients]_vars

\* C9: a control call that gets no response before its timeout returns the
\* error 'Timeout waiting for response'.
C9_CallTimeoutReturnsError ==
  \A c \in Calls :
    (pc[c] \in {"init_ret", "new_ret"} /\ loc[c].ret.wait = "timeout")
      => loc[c].ret.error = TimeoutMsg

\* C10: the pending table of a client holds exactly the requests of the calls
\* now waiting on it: an entry is gone once its _call or prompt worker has
\* finished, by response or by timeout, and with no call in flight the table
\* is empty, also while a response to a timed-out request is still to come.
C10_PendingRemoved ==
  \A k \in Clients :
    pending[k] = {loc[c].req : c \in {d \in Calls : ClientOf(d) = k /\ pc[d] \in Waiting}}

\* C10, a case of it: every call has ended, one of them by a timeout whose
\* request the agent has yet to answer, and the table is empty.
C10_Witness ==
  \E k \in Clients :
    /\ inbox[k] # {} /\ pending[k] = {} /\ req_id[k] > 0
    /\ \A c \in Calls : pc[c] \in {"idle", "done"}

\* C11: the request ids of one client are strictly increasing and pairwise
\* distinct across all its callers: an id handed out is above every id handed
\* out before, no two outstanding requests share an id, and no id is reused.
C11_RequestIdsDistinct ==
  /\ [](\A k \in Clients :
          /\ pending[k] \subseteq 1..req_id[k]
          /\ \A r \in inbox[k] : r.id \in 1..req_id[k]
          /\ \A r, q \in inbox[k] : r.id = q.id => r = q
          /\ \A c, d \in Calls :
               (c # d /\ ClientOf(c) = k /\ ClientOf(d) = k
                /\ pc[c] \in Waiting /\ pc[d] \in Waiting)
                 => loc[c].req # loc[d].req)
  /\ [][\A k \in Clients :
          /\ req_id'[k] >= req_id[k]
          /\ \A r \in inbox'[k] \ inbox[k] :
               r.id > req_id[k] /\ r.id = req_id'[k] /\ r.id \notin pending[k]]_vars

\* C11, a case of it: two callers of one client have requests outstanding,
\* under two ids.
C11_Witness ==
  \E k \in Clients : \E c, d \in Calls :
    /\ c # d /\ ClientOf(c) = k /\ ClientOf(d) = k
    /\ pc[c] \in Waiting /\ pc[d] \in Waiting
    /\ {loc[c].req, loc[d].req} \subseteq pending[k] /\ loc[c].req < loc[d].req

\* C12: in every interleaving of the callers and the reader thread, the
\* response to a registered request is attached to its entry and sets its
\* event, and no completion is lost: while a registered request awaits its
\* response, the read loop that is to attach it is running.
C12_NoCompletionLost ==
  \A k \in Clients :
    (\E r \in inbox[k] : r.id \in pending[k]) => reader[k].pc # "dead"

\* C13: get_or_create_session with a key present in the registry returns the
\* cached session id and does nothing else: no message is sent, no request id
\* allocated, and the pending table, the callback table and the registry are
\* unchanged.
C13_CachedSessionNoEffect ==
  [][\A c \in Calls :
       (/\ pc[c] = "w_session" /\ pc'[c] # "w_session"
        /\ arg[c].key # NoKey /\ sessions[ClientOf(c)][arg[c].key] # NoSid)
         => /\ pc'[c] = "w_send"
            /\ loc'[c].sid = sessions[ClientOf(c)][arg[c].key]
            /\ UNCHANGED <<inbox, req_id, pending, entry, callbacks, sessions>>]_vars

\* C13, a case of it: a call has got the session of its key from the registry,
\* the client having sent nothing since the session/new that created it.
C13_Witness ==
  \E c, d \in Calls :
    /\ c # d /\ SameChat(c, d) /\ pc[c] = "w_send" /\ loc[c].existing
    /\ loc[c].sid = sessions[ClientOf(c)][arg[c].key] /\ loc[c].sid = loc[d].sid

\* C14: get_or_create_session without a session key sends a session/new
\* request on every call, returns the session id of the response to that
\* request, and leaves the registry as it was; every prompt without a key is
\* a first turn: it carries the context and the images given, on a session of
\* its own.
C14_KeylessSessionFresh ==
  /\ [](\A c \in Calls :
          (pc[c] # "idle" /\ arg[c].harness \in AcpHarnesses /\ arg[c].key = NoKey)
            => /\ ~loc[c].existing
               /\ pc[c] \in {"p_send", "p_wait", "p_finish"} \/ hist[c].prompt
                    => loc[c].full = arg[c].ctx /\ loc[c].images = arg[c].images
               /\ \A d \in Calls :
                    (d # c /\ ClientOf(d) = ClientOf(c) /\ Resolved(c) /\ Resolved(d))
                      => loc[d].sid # loc[c].sid)
  /\ [][\A c \in Calls :
          arg[c].key = NoKey =>
            /\ (pc[c] = "w_session" /\ pc'[c] # "w_session")
                 => /\ pc'[c] = "new_wait"
                    /\ loc'[c].req = req_id'[ClientOf(c)]
                    /\ [id |-> loc'[c].req, method |-> "session/new", sid |-> NoSid]
                         \in inbox'[ClientOf(c)] \ inbox[ClientOf(c)]
            /\ (pc[c] = "new_wait" /\ pc'[c] = "new_ret")
                 => /\ loc'[c].ret.result = entry[ClientOf(c)][loc[c].req].result
                    /\ sessions' = sessions
            /\ (pc[c] = "new_ret" /\ pc'[c] # "new_ret")
                 => /\ sessions' = sessions
                    /\ pc'[c] = "w_send"
                         => /\ loc'[c].sid = loc[c].ret.result.sessionId
                            /\ loc'[c].sid # NoSid]_vars

\* C14, a case of it: two calls without a key have sent their prompts on one
\* client, each with the context, on two sessions, and the registry is empty.
C14_Witness ==
  \E c, d \in Calls :
    /\ c # d /\ arg[c].key = NoKey /\ arg[d].key = NoKey
    /\ ClientOf(c) = ClientOf(d) /\ ClientOf(c) # NoClient
    /\ hist[c].prompt /\ hist[d].prompt /\ hist[c].full /\ hist[d].full
    /\ loc[c].sid # loc[d].sid
    /\ \A x \in SessionKeys : sessions[ClientOf(c)][x] = NoSid

\* C15 as stated: once a session key is mapped to a session id in a client's
\* registry, the mapping never changes or disappears, concurrent calls for
\* the same unseen key included.
C15_MappingNeverChanges ==
  [][\A k \in Clients : \A x \in SessionKeys :
       sessions[k][x] # NoSid => sessions'[k][x] = sessions[k][x]]_vars

\* C15, amended: a mapping never disappears, and it is set only by a call for
\* that key on that client that found the key absent and created a session:
\* every such call stores the session it created, so of concurrent calls for
\* one unseen key the last to return determines the mapping.
C15_MappingSetByCreator ==
  /\ [](\A c \in Calls :
          (arg[c].harness \in AcpHarnesses /\ arg[c].key # NoKey /\ Resolved(c))
            => sessions[ClientOf(c)][arg[c].key] \in 1..agent[ClientOf(c)].sids)
  /\ [][/\ \A k \in Clients : \A x \in SessionKeys :
             sessions'[k][x] # sessions[k][x]
               => /\ sessions'[k][x] # NoSid
                  /\ \E c \in Calls :
                       /\ ClientOf(c) = k /\ arg[c].key = x /\ ~loc[c].existing
                       /\ pc[c] = "new_ret" /\ pc'[c] = "w_send"
        /\ \A c \in Calls :
             (arg[c].key # NoKey /\ pc[c] = "new_ret" /\ pc'[c] = "w_send")
               => sessions'[ClientOf(c)][arg[c].key] = loc'[c].sid]_vars

\* C15, a case of it: two calls for one key on one client each created a
\* session, and the registry holds the session of one of them.
C15_Witness ==
  \E c, d \in Calls :
    /\ c # d /\ SameChat(c, d) /\ Resolved(c) /\ Resolved(d)
    /\ ~loc[c].existing /\ ~loc[d].existing /\ loc[c].sid # loc[d].sid
    /\ sessions[ClientOf(c)][arg[c].key] = loc[d].sid

\* C16: after the client cache is invalidated by a model switch, the next
\* prompt runs on a client constructed after the switch, with an empty
\* registry: the call creates a new session for its key.
C16_SwitchStartsNewClient ==
  \A c \in Calls :
    (loc[c].model > 0 /\ ClientOf(c) # NoClient)
      => /\ hist[ClientOf(c)].born >= loc[c].model
         /\ ~loc[c].existing

\* The cache key of the call that constructed client k.
KeyOf(k) == CacheKey(arg[k].harness, loc[k].model)

\* C17 as stated: at most one subprocess is spawned per cache key, two calls
\* whose workers both find the cache empty included (no model switch made).
C17_OneProcessPerKey ==
  model = 0 =>
    \A j, k \in Clients : (proc[j] /\ proc[k] /\ KeyOf(j) = KeyOf(k)) => j = k

\* C17, amended: a subprocess is spawned only by a worker that found no
\* client cached under its key, and a worker that finds one reuses it and
\* spawns nothing; the client a call runs on was started for the call's binary
\* and, for claude-acp, the call's model; a cached client is a started one.
C17_SpawnOnlyOnCacheMiss ==
  /\ [](/\ \A c \in Calls :
             ClientOf(c) # NoClient
               => /\ arg[ClientOf(c)].harness = arg[c].harness
                  /\ arg[c].harness = "claude-acp"
                       => loc[ClientOf(c)].model = loc[c].model
                  /\ proc[ClientOf(c)] \/ pc[c] \in {"start", "done"}
        /\ \A x \in CacheKeys : acp_clients[x] # NoClient => proc[acp_clients[x]]
        /\ \A k \in Clients : proc[k] => ClientOf(k) = k)
  /\ [][\A c \in Calls :
          /\ (pc[c] = "w_lookup" /\ pc'[c] # "w_lookup" /\ acp_clients[KeyOf(c)] # NoClient)
               => /\ pc'[c] = "w_existing" /\ loc'[c].client = acp_clients[KeyOf(c)]
                  /\ UNCHANGED <<proc, acp_clients>>
          /\ (pc'[c] = "start" /\ pc[c] # "start")
               => pc[c] = "w_lookup" /\ acp_clients[KeyOf(c)] = NoClient
          /\ (proc'[c] /\ ~proc[c]) => pc[c] = "start"]_vars

\* C17, a case of it: with no model switch made, two workers found the cache
\* empty and each spawned a subprocess for the same key.
C17_Witness ==
  /\ model = 0
  /\ \E j, k \in Clients : j # k /\ proc[j] /\ proc[k] /\ KeyOf(j) = KeyOf(k)

\* C18: the callback table holds one callback per session id; send_prompt
\* registers its callback whatever the session had before; a chunk is handed
\* only to the callback registered for its session when it is dispatched, and
\* with none registered it is dropped: the reader goes on to the next line and
\* nothing else changes.
C18_OneCallbackPerSession ==
  /\ [](\A k \in Clients :
          reader[k].pc \in {"guard", "deliver"}
            => /\ reader[k].call # 0
               /\ ClientOf(reader[k].call) = k
               /\ loc[reader[k].call].sid = reader[k].line.sid)
  /\ [][/\ \A c \in Calls :
             (pc[c] = "w_send" /\ pc'[c] = "p_send")
               => /\ callbacks'[ClientOf(c)][loc[c].sid] = c
                  /\ \A k \in Clients : \A t \in SessIds :
                       <<k, t>> # <<ClientOf(c), loc[c].sid>>
                         => callbacks'[k][t] = callbacks[k][t]
        /\ \A k \in Clients :
             agent'[k].chunks # agent[k].chunks
               => /\ UNCHANGED <<callVars, clientVars, acp_clients>>
                  /\ IF Len(agent'[k].texts) > Len(agent[k].texts)
                        /\ callbacks[k][agent'[k].texts[Len(agent'[k].texts)].sid] # 0
                     THEN LET t == agent'[k].texts[Len(agent'[k].texts)] IN
                            /\ reader'[k].pc = "guard"
                            /\ reader'[k].call = callbacks[k][t.sid]
                            /\ reader'[k].line.sid = t.sid
                            /\ reader'[k].line.text = t.text
                     ELSE reader'[k] = IdleReader
        /\ \A c \in Calls :
             (arg[c].harness \in AcpHarnesses /\ cb'[c].chunks # cb[c].chunks)
               => /\ reader[ClientOf(c)].pc = "deliver"
                  /\ reader[ClientOf(c)].call = c
                  /\ cb'[c].chunks = Append(cb[c].chunks, reader[ClientOf(c)].line.text)]_vars

\* C18, a case of it: a later send_prompt replaced the callback of a prompt
\* still waiting on the same session, and the session's chunk went to the
\* later call alone.
C18_Witness ==
  \E c, d \in Calls :
    /\ c # d /\ ClientOf(c) = ClientOf(d) /\ ClientOf(c) # NoClient
    /\ loc[c].sid = loc[d].sid /\ loc[c].sid # NoSid
    /\ pc[c] = "p_wait" /\ pc[d] = "p_wait"
    /\ callbacks[ClientOf(c)][loc[c].sid] = d
    /\ cb[d].chunks # << >> /\ cb[c].chunks = << >>

\* The chunk texts the subprocess of client k has emitted for session s, in
\* the order it wrote them.
TextsFor(k, s) ==
  LET sel == SelectSeq(agent[k].texts, LAMBDA t : t.sid = s)
  IN [i \in 1..Len(sel) |-> sel[i].text]

\* a is b with some elements left out.
RECURSIVE IsSubseq(_, _)
IsSubseq(a, b) ==
  IF a = << >> THEN TRUE
  ELSE IF b = << >> THEN FALSE
  ELSE IF Head(a) = Head(b) THEN IsSubseq(Tail(a), Tail(b))
  ELSE IsSubseq(a, Tail(b))

\* Call c is the only call that resolved its session.
Alone(c) ==
  \A d \in Calls :
    (d # c /\ ClientOf(d) = ClientOf(c)) => loc[d].sid # loc[c].sid

\* The chunk of call c's session the reader holds, about to be delivered.
InHand(c) ==
  /\ reader[ClientOf(c)].pc \in {"guard", "deliver"}
  /\ reader[ClientOf(c)].line.sid = loc[c].sid

\* Call c's prompt ended, or will end, by the response to its request, not
\* by the timeout and not by another message taken for the response.
ByResponse(c) ==
  /\ ~hist[c].stray
  /\ \/ pc[c] = "p_finish" /\ ~loc[c].timedOut
     \/ pc[c] = "done" /\ hist[c].prompt /\ cb[c].msg # Msg("", TimeoutMsg)

\* C19 as stated: the texts passed to on_chunk are, in order, a subsequence of
\* the texts emitted for the call's session, and all of them when the call
\* was not cancelled.
C19_AllChunksUnlessCancelled ==
  \A c \in Calls :
    (arg[c].harness \in AcpHarnesses /\ Resolved(c) /\ Alone(c))
      => /\ IsSubseq(cb[c].chunks, TextsFor(ClientOf(c), loc[c].sid))
         /\ (pc[c] = "done" /\ ~cancel[c])
              => cb[c].chunks = TextsFor(ClientOf(c), loc[c].sid)

\* C19, amended: the texts passed to on_chunk are, in order, a subsequence of
\* the non-empty texts emitted for the call's session; the chunk the reader
\* holds is the last one emitted; and for a call that has its session alone
\* and is not cancelled, all texts emitted while it waits have been passed on
\* but the one the reader holds, and all of them once the prompt ended by its
\* response.
C19_ChunksInOrder ==
  /\ \A k \in Clients :
       reader[k].pc \in {"guard", "deliver"}
         => /\ agent[k].texts # << >>
            /\ agent[k].texts[Len(agent[k].texts)].text = reader[k].line.text
            /\ agent[k].texts[Len(agent[k].texts)].sid = reader[k].line.sid
  /\ \A c \in Calls :
       (arg[c].harness \in AcpHarnesses /\ Resolved(c))
         => /\ IsSubseq(cb[c].chunks, TextsFor(ClientOf(c), loc[c].sid))
            /\ (Alone(c) /\ ~cancel[c] /\ (pc[c] = "p_wait" \/ ByResponse(c)))
                 => LET all == TextsFor(ClientOf(c), loc[c].sid) IN
                      IF InHand(c) THEN cb[c].chunks = SubSeq(all, 1, Len(all) - 1)
                      ELSE cb[c].chunks = all

\* C19, a case of it: a call that was not cancelled ended with on_done after
\* all the chunks of its session were passed on, in order.
C19_Witness ==
  \E c \in Calls :
    /\ arg[c].harness \in AcpHarnesses /\ pc[c] = "done" /\ cb[c].done = 1
    /\ ~cancel[c] /\ Len(cb[c].chunks) = MaxChunks
    /\ cb[c].chunks = TextsFor(ClientOf(c), loc[c].sid)
    /\ cb[c].chunks[1] < cb[c].chunks[2]

\* C20: the read loop does not wait for a chunk callback: while on_chunk of
\* one call has not returned and the subprocess has answered another pending
\* request, the reader can read that response.
C20_ReaderNotBlockedByCallback ==
  \A k \in Clients :
    (/\ reader[k].pc \in {"guard", "deliver"}
     /\ \E r \in inbox[k] :
          r.id \in pending[k] /\ r.id # loc[reader[k].call].req)
      => ENABLED ReadLine(k)

\* C21: when the response to a session/prompt carries an error, the prompt
\* ends with on_error called with the error's message as it came, and on_done
\* is not called, whatever the message string.
C21_ErrorMessageVerbatim ==
  [][\A c \in Calls :
       (/\ pc[c] = "p_finish" /\ pc'[c] = "done" /\ ~loc[c].timedOut
        /\ entry[ClientOf(c)][loc[c].req].error # None)
         => /\ cb'[c].error = cb[c].error + 1
            /\ cb'[c].done = cb[c].done
            /\ cb'[c].msg = Msg("", entry[ClientOf(c)][loc[c].req].error)]_vars

\* ------------------------------------------------------------------ Python floats
\* A float between 0 and 1/8 is a multiple of 2^-59 below 2^56: it is kept as
\* the four digits of that multiple in base 2^14, most significant first.
Digit == 2^14
Zero == <<0, 0, 0, 0>>

\* The digits with the carries taken over.
Norm(d) ==
  LET c4 == d[4] \div Digit
      c3 == (d[3] + c4) \div Digit
      c2 == (d[2] + c3) \div Digit
  IN <<d[1] + c2, (d[2] + c3) % Digit, (d[3] + c4) % Digit, d[4] % Digit>>

\* The number of bits by which the multiple is longer than a double's 53.
BitsOver(d) ==
  IF d[1] >= 2^13 THEN 3 ELSE IF d[1] >= 2^12 THEN 2 ELSE IF d[1] >= 2^11 THEN 1 ELSE 0

\* Rounding to 53 significant bits, to nearest and ties to even.
Round(d) ==
  LET m == 2^BitsOver(d)
      low == d[4] % m
      up == 2 * low > m \/ (2 * low = m /\ (d[4] \div m) % 2 = 1)
  IN Norm(<<d[1], d[2], d[3], (d[4] - low) + (IF up THEN m ELSE 0)>>)

\* a + b of two floats
FloatAdd(a, b) == Round(Norm(<<a[1] + b[1], a[2] + b[2], a[3] + b[3], a[4] + b[4]>>))

\* 2^(56 + e) / n by long division, rounded to nearest, for 2^e < n
Quotient(n, e) ==
  LET t1 == (2^e) * Digit
      t2 == (t1 % n) * Digit
      t3 == (t2 % n) * Digit
      t4 == (t3 % n) * Digit
      up == 2 * (t4 % n) > n \/ (2 * (t4 % n) = n /\ (t4 \div n) % 2 = 1)
  IN Norm(<<t1 \div n, t2 \div n, t3 \div n, (t4 \div n) + (IF up THEN 1 ELSE 0)>>)

\* 1.0 / n for 32 < n < 128: 53 significant bits, whose last is worth 2^-58
\* below n = 64 and 2^-59 from there on.
Reciprocal(n) ==
  IF n < 64 THEN LET q == Quotient(n, 2) IN Norm(<<2 * q[1], 2 * q[2], 2 * q[3], 2 * q[4]>>)
  ELSE Quotient(n, 3)

\* a < b of two floats
FloatLess(a, b) ==
  \E i \in 1..4 : a[i] < b[i] /\ \A j \in 1..(i - 1) : a[j] = b[j]

\* ------------------------------------------------------------------ lecture_search.py
\* _RRF_K
RRF_K == 60

\* The ranks at which the two slides followed are placed, and the lengths of
\* the row lists.
RrfRanks == {0, 1, MaxRank}
RrfLens == {1, 2, MaxRank + 1}

\* The slide ids (row[0]) of the rows of sub-query i: slide 1 at rank x and
\* slide 2 at rank y (-1: not found), and at every other rank a slide that no
\* other sub-query found.  A query returns a slide once.
Rows(i, x, y, len) ==
  [r \in 1..len |-> IF r - 1 = x THEN 1 ELSE IF r - 1 = y THEN 2 ELSE 10 * i + r - 1]

RowsOf(i) ==
  {Rows(i, x, y, len) : <<x, y, len>> \in
     {t \in ({-1} \cup RrfRanks) \X ({-1} \cup RrfRanks) \X RrfLens :
        t[1] < t[3] /\ t[2] < t[3] /\ (t[1] = t[2] => t[1] = -1)}}

\* query_results of n sub-queries, labelled by their place: the question, then
\* the answers.
RECURSIVE QueryResults(_)
QueryResults(n) ==
  IF n = 0 THEN {<< >>}
  ELSE {Append(q, rows) : q \in QueryResults(n - 1), rows \in RowsOf(n)}

\* for label, rows in query_results: for rank, row in enumerate(rows)
RECURSIVE Enumerate(_, _)
Enumerate(qr, i) ==
  IF i > Len(qr) THEN << >>
  ELSE [r \in 1..Len(qr[i]) |-> [label |-> i, rank |-> r - 1, sid |-> qr[i][r]]]
       \o Enumerate(qr, i + 1)

\* The three dicts of _rrf_merge after the first n rows: the keys of scores in
\* insertion order, the scores (0.0 where scores.get finds none) and
\* matched.
RECURSIVE Merged(_, _)
Merged(rows, n) ==
  IF n = 0
  THEN [order |-> << >>,
        scores |-> [sid \in {rows[j].sid : j \in 1..Len(rows)} |-> Zero],
        matched |-> [sid \in {rows[j].sid : j \in 1..Len(rows)} |-> << >>]]
  ELSE LET m == Merged(rows, n - 1)
           e == rows[n]
       IN [order |-> IF \E j \in 1..Len(m.order) : m.order[j] = e.sid
                     THEN m.order ELSE Append(m.order, e.sid),
           scores |-> [m.scores EXCEPT
                         ![e.sid] = FloatAdd(@, Reciprocal(RRF_K + e.rank + 1))],
           matched |-> [m.matched EXCEPT ![e.sid] = Append(@, e.label)]]

\* sorted(scores.items(), key=lambda x: -x[1]): a stable sort, so that a key
\* goes behind those before it whose score is not less.
RECURSIVE SortedItems(_, _, _)
SortedItems(order, n, scores) ==
  IF n = 0 THEN << >>
  ELSE LET sq == SortedItems(order, n - 1, scores)
           x == order[n]
           p == Cardinality({j \in 1..Len(sq) : ~FloatLess(scores[sq[j]], scores[x])})
       IN SubSeq(sq, 1, p) \o <<x>> \o SubSeq(sq, p + 1, Len(sq))

\* _rrf_merge(query_results): the result dicts, of which the row's other
\* columns are left out.
RrfMergeOf(query_results) ==
  LET rows == Enumerate(query_results, 1)
      m == Merged(rows, Len(rows))
      sorted == SortedItems(m.order, Len(m.order), m.scores)
  IN [j \in 1..Len(sorted) |->
        [id |-> sorted[j], rrf_score |-> m.scores[sorted[j]],
         matched_by |-> m.matched[sorted[j]]]]

\* No call is ever made.
NoScen == [calls |-> 0]

\* merged = _rrf_merge(query_results) in search_mcq
RrfMerge ==
  /\ fn.op = "_rrf_merge" /\ ~fn.done
  /\ fn' = [fn EXCEPT !.out = RrfMergeOf(fn.in), !.done = TRUE]
  /\ UNCHANGED <<scen, image_sent_sessions, model, callVars, acp_clients, clientVars, reader, agentVars,
                 hist>>

RrfInit ==
  /\ fn \in {[op |-> "_rrf_merge", in |-> q, out |-> << >>, done |-> FALSE] :
               q \in UNION {QueryResults(n) : n \in 0..MaxLists}}
  /\ scen = NoScen
  /\ Quiet

RrfNext == RrfMerge

RrfSpec == RrfInit /\ [][RrfNext]_vars

\* ---- exact sums of the reciprocal ranks, as fractions
RECURSIVE GCD(_, _)
GCD(a, b) == IF b = 0 THEN a ELSE GCD(b, a % b)

\* a + 1/n
FracAdd(a, n) ==
  LET num == a.num * n + a.den
      den == a.den * n
      g == GCD(num, den)
  IN [num |-> num \div g, den |-> den \div g]

FracLess(a, b) ==
  IF a.den = b.den THEN a.num < b.num ELSE a.num * b.den < b.num * a.den

\* The sum of 1/(60 + r + 1) over the first n rows that hold slide sid.
RECURSIVE ExactScore(_, _, _)
ExactScore(rows, n, sid) ==
  IF n = 0 THEN [num |-> 0, den |-> 1]
  ELSE IF rows[n].sid = sid
       THEN FracAdd(ExactScore(rows, n - 1, sid), RRF_K + rows[n].rank + 1)
       ELSE ExactScore(rows, n - 1, sid)

\* The place of the first row that holds slide sid.
Discovery(rows, sid) == CHOOSE j \in 1..Len(rows) :
  rows[j].sid = sid /\ \A i \in 1..(j - 1) : rows[i].sid # sid

\* C22: the output of _rrf_merge holds every slide id found exactly once, in
\* descending order of the sum of 1/(60 + r + 1) over the sub-queries that
\* found the slide at rank r, slides of equal sum in the order of their first
\* discovery.
C22_RrfOrder ==
  (fn.op = "_rrf_merge" /\ fn.done) =>
    LET rows == Enumerate(fn.in, 1)
        out == fn.out
        Sum(j) == ExactScore(rows, Len(rows), out[j].id)
    IN /\ {out[j].id : j \in 1..Len(out)} = {rows[j].sid : j \in 1..Len(rows)}
       /\ \A i, j \in 1..Len(out) : i # j => out[i].id # out[j].id
       /\ \A i, j \in 1..Len(out) :
            i < j => /\ ~FracLess(Sum(i), Sum(j))
                     /\ Sum(i) = Sum(j)
                          => Discovery(rows, out[i].id) < Discovery(rows, out[j].id)

\* ---- _sanitize
\* max_tokens, by its default
MAX_TOKENS == 6

\* stops
Stops ==
  {"och", "att", "det", "den", "en", "ett", "är", "av", "om", "för", "på",
   "med", "som", "till", "från", "kan", "de", "i", "vad", "har", "var",
   "sig", "men", "så", "när", "hur", "där", "här", "inte", "alla", "also",
   "bara", "dels", "dock", "även", "samt", "utan", "eller", "sedan", "inom",
   "över", "under", "efter", "igen", "deras", "dess", "vid", "mot", "hos",
   "via", "sina", "sitt", "hela", "just", "ofta", "vilken", "vilket",
   "vilka", "sant", "falskt", "gör", "göra", "leder", "sker", "finns",
   "inga", "olika", "andra", "detta", "dessa", "istället", "iväg", "skickas",
   "stannar", "the", "of", "in", "a", "an", "or", "and", "is", "are", "that",
   "this", "with", "from", "which", "what", "when", "where", "how"}

\* The texts explored are made of these words and marks.  t.lower() and
\* t.isupper() of the words:
Lower(t) ==
  CASE t = "Vad" -> "vad" [] t = "ATP" -> "atp" [] t = "DNA" -> "dna"
    [] t = "ER" -> "er" [] t = "B" -> "b" [] t = "OM" -> "om"
    [] t = "Cellen" -> "cellen" [] t = "mRNA" -> "mrna" [] OTHER -> t

IsUpper(t) == t \in {"ATP", "DNA", "ER", "B", "OM"}

\* The characters that re.sub replaces by a space.
Marks == {"?", "-"}

\* text.split() after the substitution: the words between the marks.
Split(text) == SelectSeq(text, LAMBDA t : t \notin Marks)

\* A loop body that appends every word.
KeptAll(t) == TRUE

\* The loop body: a word is appended unless it is a stop word, if it is
\* upper-case and of two characters or more, or longer than three.
Kept(t) ==
  /\ Lower(t) \notin Stops
  /\ (IsUpper(t) /\ Len(t) >= 2) \/ Len(t) > 3

\* sorted(set(tokens), key=lambda t: -len(t)): the set is iterated in an order
\* that depends on the hash seed of the process, and the sort keeps that order
\* among tokens of one length.
RECURSIVE Sorted(_)
Sorted(S) ==
  IF S = {} THEN {<< >>}
  ELSE UNION {{<<t>> \o q : q \in Sorted(S \ {t})} :
                t \in {u \in S : \A v \in S : Len(v) <= Len(u)}}

\* ' OR '.join(tokens)
RECURSIVE Join(_)
Join(tokens) ==
  IF tokens = << >> THEN ""
  ELSE IF Len(tokens) = 1 THEN tokens[1]
  ELSE tokens[1] \o " OR " \o Join(Tail(tokens))

\* The values _sanitize(text) may return, each with the tokens joined.
SanitizeOf(text) ==
  LET tokens == SelectSeq(Split(text), Kept)
  IN {[tokens |-> SubSeq(q, 1, IF Len(q) < MAX_TOKENS THEN Len(q) ELSE MAX_TOKENS),
       text |-> Join(SubSeq(q, 1, IF Len(q) < MAX_TOKENS THEN Len(q) ELSE MAX_TOKENS))] :
        q \in Sorted({tokens[j] : j \in 1..Len(tokens)})}

\* The query of the spec's example, and a query of abbreviations, stop words,
\* short words and repeated words.
Example == <<"Vad", "är", "mitokondriens", "funktion", "i", "cellen", "?">>
Mixed == <<"ATP", "och", "DNA", "kärna", "-", "enzym", "Cellen", "mRNA", "ER", "B",
           "gen", "OM", "cellen", "ATP">>

\* The words of text at the places I, in their order.
Pick(text, I) ==
  [k \in 1..Cardinality(I) |->
     text[CHOOSE i \in I : Cardinality({j \in I : j <= i}) = k]]

\* The queries explored: what is left of the two when words are struck out.
Queries ==
  {Pick(Example, I) : I \in SUBSET (1..Len(Example))}
    \cup {Pick(Mixed, I) : I \in SUBSET (1..Len(Mixed))}

\* clean = _sanitize(query) in _run_query
Sanitize ==
  /\ fn.op = "_sanitize" /\ ~fn.done
  /\ \E r \in SanitizeOf(fn.in) : fn' = [fn EXCEPT !.out = r, !.done = TRUE]
  /\ UNCHANGED <<scen, image_sent_sessions, model, callVars, acp_clients, clientVars, reader, agentVars,
                 hist>>

SanitizeInit ==
  /\ fn \in {[op |-> "_sanitize", in |-> q, out |-> [tokens |-> << >>, text |-> ""],
              done |-> FALSE] : q \in Queries}
  /\ scen = NoScen
  /\ Quiet

SanitizeNext == Sanitize

SanitizeSpec == SanitizeInit /\ [][SanitizeNext]_vars

\* C23: _sanitize returns the ' OR '-join of at most 6 tokens, pairwise
\* distinct, in non-increasing order of length, none of them a stop word in
\* any case, each upper-case of length 2 or more or longer than 3; for the
\* query 'Vad är mitokondriens funktion i cellen?' it returns
\* 'mitokondriens OR funktion OR cellen'.
C23_SanitizeTokens ==
  (fn.op = "_sanitize" /\ fn.done) =>
    LET t == fn.out.tokens IN
      /\ fn.out.text = Join(t)
      /\ Len(t) <= 6
      /\ \A i, j \in 1..Len(t) : i < j => t[i] # t[j] /\ Len(t[i]) >= Len(t[j])
      /\ \A i \in 1..Len(t) :
           /\ \E j \in 1..Len(fn.in) : fn.in[j] = t[i]
           /\ Lower(t[i]) \notin Stops
           /\ (IsUpper(t[i]) /\ Len(t[i]) >= 2) \/ Len(t[i]) > 3
      /\ fn.in = Example => fn.out.text = "mitokondriens OR funktion OR cellen"

\* C23, a case of it: the query of the example has been sanitized.
C23_Witness ==
  /\ fn.op = "_sanitize" /\ fn.done /\ fn.in = Example
  /\ fn.out.text = "mitokondriens OR funktion OR cellen"

\* ------------------------------------------------------------------ chat_tab.py
\* An answer is a sequence of units: a letter, a space, a newline, an opening
\* or closing tool tag, or a payload (a JSON document or a piece of one).
Tags == {"create_card", "create_cloze", "search_cards", "change_deck",
         "update_card_back"}
Open(tag) == "<" \o tag \o ">"
Close(tag) == "</" \o tag \o ">"
Whitespace == {" ", "\n"}

CardJson == "{\"front\":\"Q\",\"back\":\"A\"}"
ClozeJson == "{\"text\":\"T\",\"extra\":\"E\"}"
ListJson == "[1]"
CutJson == "{\"front\":"

\* str.strip()
RECURSIVE LStrip(_)
LStrip(t) == IF t # << >> /\ Head(t) \in Whitespace THEN LStrip(Tail(t)) ELSE t
RECURSIVE RStrip(_)
RStrip(t) ==
  IF t # << >> /\ t[Len(t)] \in Whitespace THEN RStrip(SubSeq(t, 1, Len(t) - 1)) ELSE t
Strip(t) == RStrip(LStrip(t))

\* The length of the run of newlines t begins with.
RECURSIVE Newlines(_)
Newlines(t) == IF t # << >> /\ Head(t) = "\n" THEN 1 + Newlines(Tail(t)) ELSE 0

\* re.sub(r'\n{3,}', '\n\n', raw)
RECURSIVE Collapse(_)
Collapse(t) ==
  IF t = << >> THEN << >>
  ELSE IF Newlines(t) >= 3 THEN <<"\n", "\n">> \o Collapse(SubSeq(t, Newlines(t) + 1, Len(t)))
  ELSE <<Head(t)>> \o Collapse(Tail(t))

\* _clean
Clean(raw) == Strip(Collapse(raw))

\* The first place after i where unit u stands, 0 when there is none.
Find(t, i, u) ==
  IF \E k \in (i + 1)..Len(t) : t[k] = u
  THEN CHOOSE k \in (i + 1)..Len(t) : t[k] = u /\ \A j \in (i + 1)..(k - 1) : t[j] # u
  ELSE 0

\* re.findall(r'<tag>(.*?)</tag>', cleaned, re.DOTALL), from place i on
RECURSIVE FindAll(_, _, _)
FindAll(t, tag, i) ==
  IF i > Len(t) THEN << >>
  ELSE IF t[i] = Open(tag) /\ Find(t, i, Close(tag)) # 0
       THEN <<SubSeq(t, i + 1, Find(t, i, Close(tag)) - 1)>>
            \o FindAll(t, tag, Find(t, i, Close(tag)) + 1)
       ELSE FindAll(t, tag, i + 1)

\* A parser that rejects every payload.
LoadsNothing(match) == [ok |-> FALSE, doc |-> ""]

\* _json.loads(match): the document between optional whitespace, or ValueError.
Loads(match) ==
  IF Len(Strip(match)) = 1 /\ Strip(match)[1] \in {CardJson, ClozeJson, ListJson}
  THEN [ok |-> TRUE, doc |-> Strip(match)[1]]
  ELSE [ok |-> FALSE, doc |-> ""]

\* data.get(key, ""), which a list does not have (AttributeError)
IsDict(doc) == doc \in {CardJson, ClozeJson}
Get(doc, key) ==
  IF doc = CardJson /\ key = "front" THEN "Q"
  ELSE IF doc = CardJson /\ key = "back" THEN "A"
  ELSE IF doc = ClozeJson /\ key = "text" THEN "T"
  ELSE IF doc = ClozeJson /\ key = "extra" THEN "E"
  ELSE ""

\* The loop over the create_card or the create_cloze blocks, from the n-th on:
\* the handler calls made, and whether an exception left the loop.
RECURSIVE JsonCalls(_, _, _, _, _)
JsonCalls(matches, n, tool, k1, k2) ==
  IF n > Len(matches) THEN [calls |-> << >>, raised |-> FALSE]
  ELSE LET data == Loads(matches[n]) IN
       IF ~data.ok THEN JsonCalls(matches, n + 1, tool, k1, k2)
       ELSE IF ~IsDict(data.doc) THEN [calls |-> << >>, raised |-> TRUE]
       ELSE LET rest == JsonCalls(matches, n + 1, tool, k1, k2) IN
            [calls |-> <<[tool |-> tool,
                          args |-> <<Get(data.doc, k1), Get(data.doc, k2)>>]>>
                       \o rest.calls,
             raised |-> rest.raised]

\* The loop over the blocks of a tag whose content is text.
RECURSIVE TextCalls(_, _, _)
TextCalls(matches, n, tool) ==
  IF n > Len(matches) THEN << >>
  ELSE (IF Strip(matches[n]) # << >>
        THEN <<[tool |-> tool, args |-> Strip(matches[n])]>> ELSE << >>)
       \o TextCalls(matches, n + 1, tool)

\* The first place from i on where no whitespace stands.
RECURSIVE SkipSpace(_, _)
SkipSpace(t, i) ==
  IF i <= Len(t) /\ t[i] \in Whitespace THEN SkipSpace(t, i + 1) ELSE i

\* A substitution that removes nothing.
KeepTags(t, i) == SubSeq(t, i, Len(t))

\* re.sub(r'\s*<(tag|...)>.*?</\1>', '', cleaned, flags=re.DOTALL), from
\* place i on
RECURSIVE RemoveTags(_, _)
RemoveTags(t, i) ==
  IF i > Len(t) THEN << >>
  ELSE LET j == SkipSpace(t, i)
           tagged == /\ j <= Len(t)
                     /\ \E tag \in Tags : t[j] = Open(tag) /\ Find(t, j, Close(tag)) # 0
       IN IF tagged
          THEN LET tag == CHOOSE g \in Tags : t[j] = Open(g)
               IN RemoveTags(t, Find(t, j, Close(tag)) + 1)
          ELSE <<t[i]>> \o RemoveTags(t, i + 1)

\* end_ai_message on the raw answer: the handler calls it makes, whether it
\* raises, and the answer it stores and displays (the empty message of
\* add_ai_message_start when it raises before it stores).
EndAiMessageOf(raw) ==
  LET cleaned == Clean(raw)
      card == JsonCalls(FindAll(cleaned, "create_card", 1), 1, "create_card",
                        "front", "back")
      text == TextCalls(FindAll(cleaned, "search_cards", 1), 1, "search_cards")
              \o TextCalls(FindAll(cleaned, "change_deck", 1), 1, "change_deck")
              \o TextCalls(FindAll(cleaned, "update_card_back", 1), 1,
                           "update_card_back")
      cloze == JsonCalls(FindAll(cleaned, "create_cloze", 1), 1, "create_cloze",
                         "text", "extra")
  IN IF card.raised THEN [calls |-> card.calls, raised |-> TRUE, stored |-> << >>]
     ELSE IF cloze.raised
     THEN [calls |-> card.calls \o text \o cloze.calls, raised |-> TRUE,
           stored |-> << >>]
     ELSE [calls |-> card.calls \o text \o cloze.calls, raised |-> FALSE,
           stored |-> Strip(RemoveTags(cleaned, 1))]

\* Prose: letters, angle brackets, spaces and newlines, no tool tag.
RECURSIVE Prose(_)
Prose(n) ==
  IF n = 0 THEN {<< >>}
  ELSE Prose(n - 1) \cup {Append(t, u) : t \in Prose(n - 1), u \in {"a", "<", " ", "\n"}}

\* A tool block.
Block(tag, payload) == <<Open(tag), payload, Close(tag)>>

\* The pieces answers are made of: prose, and tool blocks whose payload is a
\* document, a list, a piece of a document, or text.
Pieces ==
  {<<"a">>, <<"\n", "\n", "\n">>,
   Block("create_card", CardJson), Block("create_card", CutJson),
   Block("create_card", ListJson), Block("create_cloze", ClozeJson),
   Block("create_cloze", CutJson), Block("search_cards", "a")}

RECURSIVE Answers(_)
Answers(n) ==
  IF n = 0 THEN {<< >>}
  ELSE Answers(n - 1) \cup {t \o u : t \in Answers(n - 1), u \in Pieces}

\* The raw answers explored: prose with a create_card block appended, and
\* answers of several pieces.
RawAnswers ==
  {t \o Block("create_card", CardJson) : t \in Prose(MaxProse)} \cup Answers(MaxPieces)

\* end_ai_message, run on the main thread when the stream has ended
EndAiMessage ==
  /\ fn.op = "end_ai_message" /\ ~fn.done
  /\ fn' = [fn EXCEPT !.out = EndAiMessageOf(fn.in), !.done = TRUE]
  /\ UNCHANGED <<scen, image_sent_sessions, model, callVars, acp_clients, clientVars, reader, agentVars,
                 hist>>

ChatInit ==
  /\ fn \in {[op |-> "end_ai_message", in |-> t,
              out |-> [calls |-> << >>, raised |-> FALSE, stored |-> << >>],
              done |-> FALSE] : t \in RawAnswers}
  /\ scen = NoScen
  /\ Quiet

ChatNext == EndAiMessage

ChatSpec == ChatInit /\ [][ChatNext]_vars

\* The units of t that are no whitespace.
Ink(t) == SelectSeq(t, LAMBDA u : u \notin Whitespace)

\* The answer is prose with the create_card block of the spec's example
\* appended.
ProseAndCard ==
  /\ fn.op = "end_ai_message"
  /\ Len(fn.in) >= 3
  /\ SubSeq(fn.in, Len(fn.in) - 2, Len(fn.in)) = Block("create_card", CardJson)
  /\ \A j \in 1..(Len(fn.in) - 3) : fn.in[j] \in {"a", "<", " ", "\n"}

\* C24: for prose without a tool tag, end_ai_message of the prose with the
\* block <create_card>{"front":"Q","back":"A"}</create_card> appended calls
\* the create-card handler once, with front 'Q' and back 'A', and stores the
\* prose with only whitespace collapsed: the cleaned prose, nothing but
\* whitespace changed.
C24_TagRoundTrip ==
  (ProseAndCard /\ fn.done) =>
    LET prose == SubSeq(fn.in, 1, Len(fn.in) - 3) IN
      /\ ~fn.out.raised
      /\ fn.out.calls = <<[tool |-> "create_card", args |-> <<"Q", "A">>]>>
      /\ fn.out.stored = Clean(prose)
      /\ Ink(fn.out.stored) = Ink(prose)

\* C24, a case of it: prose with newlines to collapse, inside and before the
\* block, has been finished.
C24_Witness ==
  /\ ProseAndCard /\ fn.done
  /\ SubSeq(fn.in, 1, Len(fn.in) - 3) = <<"a", "\n", "\n", "\n">>
  /\ fn.out.stored = <<"a">>

\* The request call c waits for has not reached the subprocess.
Unsent(c) ==
  /\ hist[c].unsent
  /\ pc[c] \in {"init_wait", "new_wait", "p_wait"}

\* C25: when the write of a request to the subprocess's stdin fails, the
\* caller goes on to its wait as after a write that succeeded (no exception
\* reaches it) and the request is not written again; the request stays
\* registered, its event unset, until the wait times out; a prompt whose
\* write failed then ends with on_error("Timeout waiting for response")
\* exactly once and without on_done, and its pending entry and its chunk
\* callback are removed.
C25_WriteFailureTimesOut ==
  /\ [](\A c \in Calls :
          LET k == ClientOf(c) IN
          /\ Unsent(c) =>
               /\ loc[c].req \in pending[k]
               /\ ~entry[k][loc[c].req].event
               /\ \A r \in inbox[k] : r.id # loc[c].req
          /\ (hist[c].unsent /\ pc[c] = "p_finish") => loc[c].timedOut
          /\ (hist[c].unsent /\ hist[c].prompt /\ Done(c)) =>
               /\ cb[c].error = 1 /\ cb[c].done = 0
               /\ cb[c].msg = Msg("", TimeoutMsg)
               /\ pending[k] = {}
               /\ callbacks[k][loc[c].sid] = 0)
  /\ [][\A c \in Calls :
          (Unsent(c) /\ loc[c].req \notin pending'[ClientOf(c)])
            => /\ pc'[c] \in {"init_ret", "new_ret", "done"}
               /\ pc[c] \in {"init_wait", "new_wait"} => loc'[c].ret.wait = "timeout"]_vars

\* C25, a case of it: a prompt whose write failed has ended.
C25_Witness ==
  \E c \in Calls :
    /\ hist[c].unsent /\ hist[c].prompt /\ Done(c)
    /\ cb[c].error = 1
    /\ cb[c].msg = Msg("", TimeoutMsg)

\* C26: a decoded message that is neither an agent_message_chunk
\* session/update nor a response to a pending request (a session/update of
\* another kind, a message with another method, with or without an id) is
\* ignored: the reader makes no callback, sets no event, does not end, and
\* leaves the pending table, the callback table and the session registry as
\* they are.
C26_OtherMessagesIgnored ==
  [][\A k \in Clients :
       (agent'[k].other = agent[k].other + 1
          \/ (reader[k].line.kind \in {"update", "method"} /\ reader'[k] # reader[k]))
         => /\ reader'[k] = IdleReader
            /\ UNCHANGED <<cb, clientVars>>]_vars

\* ------------------------------------------------------------------ tool payloads
\* One call to a direct backend whose response body carries tool_use blocks,
\* and which the caller may cancel.
ToolScenario ==
  [calls |-> 1, args |-> {a \in ArgSet : a.harness \in HttpHarnesses /\ a.apiKey},
   chunks |-> 0, bad |-> 0, cancel |-> TRUE, timeouts |-> FALSE, errs |-> {},
   caps |-> {}, switch |-> FALSE, repeat |-> FALSE, sendfail |-> FALSE,
   other |-> 0, odd |-> 0, panel |-> FALSE, tools |-> TRUE, lines |-> MaxLines]

\* The tool invocations of an answer, native or in-band: a call to a direct
\* backend is to be made, or a streamed answer is to be finished.
ToolInit ==
  \/ /\ scen = ToolScenario
     /\ fn = NoFn
     /\ Quiet
  \/ /\ scen = [ToolScenario EXCEPT !.calls = 0]
     /\ fn \in {[op |-> "end_ai_message", in |-> t,
                 out |-> [calls |-> << >>, raised |-> FALSE, stored |-> << >>],
                 done |-> FALSE] : t \in Answers(MaxPieces)}
     /\ Quiet

ToolNext ==
  \/ \E c \in Calls : AskAiAsync(c)
  \/ \E c \in Calls : SetCancel(c)
  \/ \E c \in Calls : HttpStart(c)
  \/ \E c \in Calls : HttpRead(c)
  \/ \E c \in Calls : HttpDeliver(c)
  \/ EndAiMessage

ToolSpec == ToolInit /\ [][ToolNext]_vars

\* The fragments that are not empty.
Solid(frags) == SelectSeq(frags, LAMBDA f : f # "")

\* The tool invocations a closed tool_use block is to make: one, with its
\* name and the object its fragments spell in the order they came, or none.
Invocations(b) ==
  IF Solid(b.frags) = <<"{\"query\":", "\"x\"}">>
  THEN <<[name |-> b.name, input |-> {<<"query", "x">>}]>>
  ELSE IF Solid(b.frags) = <<"{}">> THEN <<[name |-> b.name, input |-> {}]>>
  ELSE << >>

\* The content_block_stop of a tool_use block is read by call c.
BlockStop(c) == sse[c].block # NoBlock /\ sse'[c].block = NoBlock

\* C27: in the Claude backend on_tool_use is called only when the
\* content_block_stop of a tool_use block is read, at most once for the
\* block, with the block's name and the JSON its input_json_delta fragments
\* spell in arrival order; the accumulator holds the fragments of the open
\* block alone, and after a content_block_stop name and fragments are empty.
C27_ToolUseAtBlockStop ==
  /\ [](\A c \in Calls :
          /\ sse[c].block = NoBlock => (sse[c].name = None /\ sse[c].parts = << >>)
          /\ sse[c].block # NoBlock =>
               (sse[c].name = sse[c].block.name /\ sse[c].parts = sse[c].block.frags))
  /\ [][\A c \in Calls :
          /\ BlockStop(c) => cb'[c].tools = cb[c].tools \o Invocations(sse[c].block)
          /\ ~BlockStop(c) => cb'[c].tools = cb[c].tools]_vars

\* C27, a case of it: two tool_use blocks have been closed, and each was
\* passed on with its own name and input.
C27_Witness ==
  \E c \in Calls :
    /\ sse[c].block = NoBlock
    /\ cb[c].tools = <<[name |-> "search_cards", input |-> {<<"query", "x">>}],
                       [name |-> "create_card", input |-> {}]>>

\* The places of the answer t where block b stands.
Places(t, b) == {i \in 1..(Len(t) - 2) : SubSeq(t, i, i + 2) = b}

\* n times the item x.
Times(n, x) == [i \in 1..n |-> x]

\* The letters of the answer t that stand outside its tool blocks.
Letters(t) ==
  Cardinality({i \in 1..Len(t) : t[i] = "a" /\ (i = 1 \/ t[i - 1] # Open("search_cards"))})

\* The finished answer has an in-band block whose payload is no JSON, and none
\* whose payload is JSON of another shape than an object.
BadPayload ==
  /\ fn.op = "end_ai_message" /\ fn.done
  /\ Places(fn.in, Block("create_card", CutJson))
       \cup Places(fn.in, Block("create_cloze", CutJson)) # {}
  /\ Places(fn.in, Block("create_card", ListJson)) = {}

InLineOrder(chunks) ==
  \A i, j \in DOMAIN chunks :
    (i < j /\ chunks[i] # 0 /\ chunks[j] # 0) => chunks[i] < chunks[j]

\* C29: in both direct backends an SSE line without the "data:" prefix, or
\* whose payload is no JSON, is passed over: reading it calls nothing, leaves
\* the loop reading and the tool accumulator as it was; text deltas that come
\* later are delivered, in the order of their lines; and the call ends with
\* one terminal callback, on_error only for a failure of the transport.
C29_MalformedLineSkipped ==
  /\ [](\A c \in Calls :
          /\ InLineOrder(cb[c].chunks)
          /\ (sse[c].skipped > 0 /\ Done(c)) =>
               /\ Terminal(c) = 1
               /\ cb[c].error = 1 => cb[c].msg = Msg("Exception", "read"))
  /\ [][\A c \in Calls :
          /\ sse'[c].skipped # sse[c].skipped =>
               /\ cb' = cb
               /\ pc'[c] = "h_read"
               /\ sse'[c] = [sse[c] EXCEPT !.n = @ + 1, !.skipped = @ + 1]
          /\ (sse[c].skipped > 0 /\ pc[c] = "h_deliver" /\ pc'[c] # "h_deliver") =>
               cb'[c].chunks = Append(cb[c].chunks, sse[c].text)]_vars

\* C29, a case of it: in the OpenAI backend a line was passed over between two
\* text deltas, both were delivered, and the call ended with on_done.
C29_Witness ==
  \E c \in Calls :
    /\ arg[c].harness = "openai-api"
    /\ sse[c].skipped = 1 /\ Done(c)
    /\ cb[c].chunks = <<1, 3>>
    /\ cb[c].done = 1 /\ cb[c].error = 0

\* Call c is an ACP prompt in flight: sent and not yet finished.
InFlight(c) ==
  /\ arg[c].harness \in AcpHarnesses
  /\ pc[c] \in {"p_wait", "p_finish"}

EXCLUDE == {<<"i", "n", "s", "t", "u", "d", "e", "r", "i", "n", "g">>,
            <<"s", "e", "m", "i", "n", "a", "r", "i", "e", "u", "p", "p", "g", "i", "f", "t">>,
            <<"s", "e", "m", "i", "n", "a", "r", "e", "u", "p", "p", "g", "i", "f", "t">>,
            <<"s", "e", "m", "i", "n", "a", "r", "u", "p", "p", "g", "i", "f", "t">>}

\* str.lower(), on the characters that occur
LowerChar(t) ==
  CASE t = "C" -> "c"
    [] t = "D" -> "d"
    [] t = "E" -> "e"
    [] t = "G" -> "g"
    [] t = "I" -> "i"
    [] t = "N" -> "n"
    [] t = "R" -> "r"
    [] t = "S" -> "s"
    [] t = "T" -> "t"
    [] t = "U" -> "u"
    [] OTHER -> t

\* x in lecture
Contains(text, x) ==
  \E i \in 1..(Len(text) - Len(x) + 1) : SubSeq(text, i, i + Len(x) - 1) = x

\* An exclusion test that compares the name as it is written.
ExcludedAsWritten(lecture) == \E x \in EXCLUDE : Contains(lecture, x)

\* _excluded, of the lecture column of a slide (the empty text for NULL): the
\* name in lower case holds one of the substrings.
Excluded(lecture) ==
  \E x \in EXCLUDE : Contains([i \in 1..Len(lecture) |-> LowerChar(lecture[i])], x)

\* The lecture column of the slides of the index, by slide id: three slides
\* of content lectures (one whose lecture is NULL, one whose name comes close
\* to an excluded one), and from id 4 on slides of excluded lectures, their
\* names in upper, mixed and lower case.
LectureOf(id) ==
  IF id = 1 THEN <<"C", "e", "l", "l">>
  ELSE IF id = 2 THEN << >>
  ELSE IF id = 3 THEN <<"S", "e", "m", "i", "n", "a", "r", "i", "u", "m">>
  ELSE IF id % 4 = 0 THEN <<"I", "N", "S", "T", "U", "D", "E", "R", "I", "N", "G">>
  ELSE IF id % 4 = 1 THEN <<"S", "e", "m", "i", "n", "a", "r", "i", "e", "u", "p", "p", "g", "i", "f", "t">>
  ELSE IF id % 4 = 2 THEN <<"s", "e", "m", "i", "n", "a", "r", "e", "u", "p", "p", "g", "i", "f", "t">>
  ELSE <<"a", " ", "S", "e", "m", "i", "n", "a", "r", "u", "p", "p", "g", "i", "f", "t">>

\* The slides that match a query, best bm25 score first: e slides of
\* excluded lectures and g slides of content lectures, the excluded ones
\* before the others or after them.
Matches(e, g, first) ==
  IF first = "excluded"
  THEN [r \in 1..(e + g) |-> IF r <= e THEN 3 + r ELSE r - e]
  ELSE [r \in 1..(e + g) |-> IF r <= g THEN r ELSE 3 + r - g]

MatchLists ==
  {Matches(e, g, first) : e \in {0, 1, MaxExcluded}, g \in 0..MaxGood,
                          first \in {"excluded", "good"}}

\* A query: the slides it matches, and whether sqlite raises OperationalError
\* on its MATCH expression.
Queried == [matches : MatchLists, raises : BOOLEAN]

\* _run_query on a query that _sanitize leaves tokens of: the first `limit`
\* rows in the order of their score, none when sqlite raises.
RunQuery(query, limit) ==
  IF query.raises THEN << >>
  ELSE SubSeq(query.matches, 1, IF Len(query.matches) < limit THEN Len(query.matches)
                                ELSE limit)

\* [s for s in results if not _excluded(s)]
RECURSIVE NotExcluded(_)
NotExcluded(ids) ==
  IF ids = << >> THEN << >>
  ELSE (IF Excluded(LectureOf(Head(ids))) THEN << >> ELSE <<Head(ids)>>)
       \o NotExcluded(Tail(ids))

\* search_slides(query, limit): the ids of the slides returned.
SearchSlidesOf(query, limit) == NotExcluded(RunQuery(query, limit))

\* per_query = max(limit, 20)
PER_QUERY == 20
PerQuery(limit) == IF limit > PER_QUERY THEN limit ELSE PER_QUERY

\* The sub-queries of search_mcq whose rows are not empty, each with its rows.
RECURSIVE SubQueries(_, _)
SubQueries(queries, limit) ==
  IF queries = << >> THEN << >>
  ELSE (IF RunQuery(Head(queries), PerQuery(limit)) # << >>
        THEN <<RunQuery(Head(queries), PerQuery(limit))>> ELSE << >>)
       \o SubQueries(Tail(queries), limit)

\* search_mcq(question, answers, limit), queries being the question followed
\* by the answers: the ids of the slides returned.
SearchMcqOf(queries, limit) ==
  LET merged == RrfMergeOf(SubQueries(queries, limit))
      kept == NotExcluded([j \in 1..Len(merged) |-> merged[j].id])
  IN SubSeq(kept, 1, IF Len(kept) < limit THEN Len(kept) ELSE limit)

SearchSlides ==
  /\ fn.op = "search_slides" /\ ~fn.done
  /\ fn' = [fn EXCEPT !.out = SearchSlidesOf(fn.in[1], fn.limit), !.done = TRUE]
  /\ UNCHANGED <<scen, image_sent_sessions, model, callVars, acp_clients, clientVars, reader, agentVars,
                 hist>>

SearchMcq ==
  /\ fn.op = "search_mcq" /\ ~fn.done
  /\ fn' = [fn EXCEPT !.out = SearchMcqOf(fn.in, fn.limit), !.done = TRUE]
  /\ UNCHANGED <<scen, image_sent_sessions, model, callVars, acp_clients, clientVars, reader, agentVars,
                 hist>>

\* The question and the answers of a card.
RECURSIVE Cards(_)
Cards(n) ==
  IF n = 0 THEN {<<q>> : q \in Queried}
  ELSE Cards(n - 1) \cup {Append(t, q) : t \in Cards(n - 1), q \in Queried}

SearchInit ==
  /\ fn \in {[op |-> "search_slides", in |-> <<q>>, limit |-> l, out |-> << >>,
              done |-> FALSE] : q \in Queried, l \in 1..MaxLimit}
            \cup {[op |-> "search_mcq", in |-> t, limit |-> l, out |-> << >>,
                   done |-> FALSE] : t \in Cards(MaxAnswers), l \in 1..MaxLimit}
  /\ scen = NoScen
  /\ Quiet

SearchNext == SearchSlides \/ SearchMcq

SearchSpec == SearchInit /\ [][SearchNext]_vars

\* The lecture name of the slide holds, at some place and in whatever case
\* its letters are written, the letters of an exclusion substring.
NamesExcluded(id) ==
  LET lecture == LectureOf(id)
  IN \E x \in EXCLUDE, i \in 1..Len(lecture) :
       /\ i + Len(x) - 1 <= Len(lecture)
       /\ \A j \in 1..Len(x) : LowerChar(lecture[i + j - 1]) = x[j]

\* C31: search_slides and search_mcq return no slide whose lecture name
\* holds an exclusion substring, in whatever case it is written and at
\* whatever rank the slide was found, and search_mcq returns at most limit
\* slides.
C31_NoExcludedSlide ==
  fn.op \in {"search_slides", "search_mcq"} =>
    /\ \A j \in 1..Len(fn.out) : ~NamesExcluded(fn.out[j])
    /\ fn.op = "search_mcq" => Len(fn.out) <= fn.limit

\* C31, a case of it: search_mcq has found slides of excluded lectures ahead
\* of a slide of a content lecture, and returned that slide alone.
C31_Witness ==
  /\ fn.op = "search_mcq" /\ fn.done
  /\ fn.in[1].matches = Matches(1, 1, "excluded") /\ ~fn.in[1].raises
  /\ fn.out = <<1>>

\* The slides of content lectures that one of the queries matches.
ContentMatches ==
  {id \in UNION {{fn.in[i].matches[r] : r \in 1..Len(fn.in[i].matches)} :
                   i \in {i \in 1..Len(fn.in) : ~fn.in[i].raises}} :
     ~NamesExcluded(id)}

\* C40: a search returns min(limit, number of matching slides of content
\* lectures) slides: a slide of an excluded lecture takes none of the limit
\* places of the result.
C40_LimitOfContentSlides ==
  (fn.op \in {"search_slides", "search_mcq"} /\ fn.done) =>
    Len(fn.out) = (IF Cardinality(ContentMatches) < fn.limit
                   THEN Cardinality(ContentMatches) ELSE fn.limit)

\* The handler calls of out made for tool `tool` with the arguments args.
CallsOf(out, tool, args) ==
  Cardinality({j \in 1..Len(out.calls) : out.calls[j] = [tool |-> tool, args |-> args]})

\* C32: when a streamed answer is finished, each complete in-band block of
\* its text has been dispatched exactly once, to the handler of its tag with
\* the arguments of its payload, end_ai_message has not raised, and the
\* answer stored holds no complete block.
C32_BlocksDispatchedOnce ==
  (fn.op = "end_ai_message" /\ fn.done) =>
    /\ ~fn.out.raised
    /\ CallsOf(fn.out, "create_card", <<"Q", "A">>)
         = Cardinality(Places(fn.in, Block("create_card", CardJson)))
    /\ CallsOf(fn.out, "search_cards", <<"a">>)
         = Cardinality(Places(fn.in, Block("search_cards", "a")))
    /\ CallsOf(fn.out, "create_cloze", <<"T", "E">>)
         = Cardinality(Places(fn.in, Block("create_cloze", ClozeJson)))
    /\ \A tag \in Tags, i \in 1..Len(fn.out.stored) :
         fn.out.stored[i] = Open(tag) => Find(fn.out.stored, i, Close(tag)) = 0

\* C33: a client is put into the client cache only by the call that started
\* it and only when its initialize request was answered, and answered
\* without an error; a call whose start() did not come to that ends with
\* on_error, caches nothing and starts nothing more.
C33_CachedAfterHandshake ==
  [][\A c \in Calls :
       /\ (pc[c] = "init_ret" /\ pc'[c] = "w_existing") =>
            /\ loc[c].ret.wait = "response"
            /\ loc[c].ret.error = None
       /\ (pc[c] = "init_ret" /\ pc'[c] = "done") =>
            /\ acp_clients' = acp_clients
            /\ cb'[c].error = cb[c].error + 1
            /\ req_id' = req_id]_vars

\* The prompt of call d is in flight: its chunk callback is registered or
\* about to be used, and its terminal callback has not been made.
PromptInFlight(d) == pc[d] \in {"p_send", "p_wait", "p_finish"}

\* C34: when the prompt of one call ends, by its response or by its timeout,
\* while the prompt of another call is in flight on the same session of the
\* same client, the chunk callback the other call registered stays
\* registered.
C34_OtherCallbackKept ==
  [][\A c, d \in Calls :
       (/\ c # d
        /\ pc[c] = "p_finish" /\ pc'[c] = "done"
        /\ PromptInFlight(d)
        /\ loc[d].client = loc[c].client /\ loc[d].sid = loc[c].sid
        /\ callbacks[loc[d].client][loc[d].sid] = d)
       => callbacks'[loc[d].client][loc[d].sid] = d]_vars

\* C35: the read loop goes on after a stdout message that is valid JSON but
\* no object, after a response whose error member is no object, and after a
\* chunk callback that raised: none of the three ends it, so that the
\* responses that come later are still read.
C35_ReadLoopSurvives ==
  [][\A k \in Clients :
       /\ reader[k].pc = "read" => reader'[k].pc # "dead"
       /\ (reader[k].pc = "attach" /\ reader[k].line.err = NotAnObject) =>
            reader'[k].pc # "dead"
       /\ reader[k].pc = "deliver" => reader'[k].pc # "dead"]_vars

\* Calls c and d have prompts on two sessions of one client.
TwoSessions(c, d) ==
  /\ c # d
  /\ hist[c].prompt /\ hist[d].prompt
  /\ loc[c].client = loc[d].client
  /\ loc[c].sid # loc[d].sid

\* C36: on a client with prompts on two sessions, on_chunk of a call is
\* called only with a chunk that names the session of that call's prompt,
\* and the wait of a prompt ends as answered only when its event was set,
\* which only a message carrying the id of its own request does: the two
\* prompts in flight have different request ids, and a response changes the
\* entry of its own id and no other.
C36_SessionsApart ==
  /\ [](\A c, d \in Calls :
          (TwoSessions(c, d) /\ pc[c] \in {"p_wait", "p_finish"}
             /\ pc[d] \in {"p_wait", "p_finish"}) => loc[c].req # loc[d].req)
  /\ [][\A c \in Calls :
          /\ (arg[c].harness \in AcpHarnesses /\ cb'[c].chunks # cb[c].chunks) =>
               \E k \in Clients :
                 /\ k = loc[c].client
                 /\ reader[k].pc = "deliver" /\ reader[k].call = c
                 /\ reader[k].line.sid = loc[c].sid
                 /\ cb'[c].chunks = Append(cb[c].chunks, reader[k].line.text)
          /\ (pc[c] = "p_wait" /\ pc'[c] = "p_finish" /\ ~loc'[c].timedOut) =>
               entry[loc[c].client][loc[c].req].event
          /\ \A i \in ReqIds :
               (loc[c].client # NoClient
                  /\ ~entry[loc[c].client][i].event /\ entry'[loc[c].client][i].event)
               => (reader[loc[c].client].pc = "attach"
                     /\ reader[loc[c].client].line.id = i)]_vars

\* C36, a case of it: of two calls with prompts on two sessions of one
\* client, one has received the chunk of its session and ended with on_done
\* while the prompt of the other, which received nothing, is in flight.
C36_Witness ==
  \E c, d \in Calls :
    /\ TwoSessions(c, d)
    /\ Done(c) /\ cb[c].done = 1 /\ Len(cb[c].chunks) = 1
    /\ pc[d] = "p_wait" /\ cb[d].chunks = << >>

\* The clients whose subprocess runs, the clients the cache holds, and the
\* clients whose start() is in progress.
Live == {k \in Clients : proc[k]}
Held == {k \in Clients : \E x \in CacheKeys : acp_clients[x] = k}
Starting == {k \in Clients : \E c \in Calls : loc[c].client = k
                                            /\ pc[c] \in {"init_wait", "init_ret"}}

\* C37: no subprocess runs without an owner: the subprocess of a client
\* whose start() failed after the spawn, and of a client dropped from the
\* cache by a model switch, is terminated, so that there are no more live
\* subprocesses than clients cached or being started.
C37_NoOrphanSubprocess ==
  /\ Cardinality(Live) <= Cardinality(Held) + Cardinality(Starting \ Held)
  /\ \A c \in Calls :
       (Done(c) /\ cb[c].msg.pre = "initialize failed: ") => ~proc[loc[c].client]

\* The panel has withheld the images of the card from message c: the key of
\* the message was in _image_sent_sessions when it was sent.
Withheld(c) == scen.panel /\ Started(c) /\ arg[c].images = 0

\* C38: when the panel withholds the images of the card from a message, an
\* earlier message of the same key has carried them in its session/prompt,
\* and the session that message was sent into, on the same client, is the one
\* the later message is sent into.
C38_WithheldAfterDelivery ==
  \A c \in Calls :
    Withheld(c) =>
      \E d \in Calls :
        /\ d < c /\ arg[d].key = arg[c].key
        /\ hist[d].images > 0
        /\ hist[c].prompt =>
             (loc[d].client = loc[c].client /\ loc[d].sid = loc[c].sid)

\* What _call("session/new") returned is no session: its wait timed out, the
\* response carried an error, or its result is missing or has no sessionId.
NoSession(ret) ==
  \/ ret.wait = "timeout"
  \/ ret.error # None
  \/ ret.result.isNone
  \/ ret.result.sessionId = NoSid

\* The call ended with the error of a session/new that gave no session.
SessionNewFailed(c) ==
  /\ Done(c)
  /\ cb[c].msg.pre \in {"session/new failed: ", "No sessionId in session/new response"}

\* C39: a session/new that returns an error, times out or returns no
\* sessionId ends the call with on_error, once and without on_done; the step
\* stores nothing in the session registry, registers no chunk callback and
\* sends no request, and the call has sent no session/prompt and holds no
\* session; a call goes on to its prompt only from a session/new that was
\* answered with a sessionId.
C39_SessionNewFailure ==
  /\ [](\A c \in Calls :
          SessionNewFailed(c) =>
            /\ cb[c].error = 1 /\ cb[c].done = 0
            /\ ~hist[c].prompt
            /\ loc[c].sid = NoSid
            /\ \A k \in Clients, s \in SessIds : callbacks[k][s] # c)
  /\ [][\A c \in Calls :
          (pc[c] = "new_ret" /\ pc'[c] # "new_ret") =>
            IF NoSession(loc[c].ret)
            THEN /\ pc'[c] = "done"
                 /\ cb'[c].error = cb[c].error + 1 /\ cb'[c].done = cb[c].done
                 /\ sessions' = sessions
                 /\ callbacks' = callbacks
                 /\ req_id' = req_id /\ inbox' = inbox /\ pending' = pending
            ELSE pc'[c] = "w_send"]_vars

\* C39, a case of it: a call whose session/new timed out has ended with
\* on_error, and the key of its chat is in no registry.
C39_Witness ==
  \E c \in Calls :
    /\ SessionNewFailed(c) /\ cb[c].error = 1
    /\ cb[c].msg.pre = "No sessionId in session/new response"
    /\ arg[c].key \in SessionKeys
    /\ \A k \in Clients : sessions[k][arg[c].key] = NoSid

====
